---- MODULE Spec2Model ----
(***************************************************************************)
(* A model of the migration engine of DatabaseBackup:                      *)
(*   app/db_migration.py      DatabaseMigration (connect, migrate_table,   *)
(*                            migrate_database, export_database,           *)
(*                            import_database, _execute_sql_script)        *)
(*   app/db_adapters/*.py     the adapters' data operations                *)
(*   app/db_adapters/type_mapping.py  DataTypeMapper                       *)
(*   app/main_window.py       SyncWorker._run_migration                    *)
(*                                                                         *)
(* Spec        one run of SyncWorker._run_migration                        *)
(* SpecFilter  the table-set resolution loops of migrate_database and      *)
(*             export_database                                             *)
(* SpecSplit   the line scanner of _execute_sql_script                     *)
(* SpecImport  import_database: scan, then execute statement by statement  *)
(***************************************************************************)
EXTENDS Integers, Sequences, FiniteSets, TLC

\* ------------------------------------------------------------------ bounds
\* number of tables of the source database
NumTables == 3
\* number of rows of a non-empty source table
MaxRows == 3
\* number of table names the table-set resolution is tried on
NumFilterTables == 4
\* number of lines of a script given to the scanner
MaxLines == 5
\* number of lines of a script that is scanned and executed
MaxImportLines == 3
\* number of operations invoked on one adapter object
MaxAdapterCalls == 3
\* number of rows of a table given to export_table_sql
MaxExportRows == 1001
\* number of characters of a string value of an exported row
MaxValueLen == 3

\* ------------------------------------------------------------ value domains
TableNames == <<"A", "B", "C", "D", "E">>
AllTables == {TableNames[n] : n \in 1..NumTables}

\* get_table_list order: SQLite and PostgreSQL ORDER BY name
TableListOrder == [n \in 1..NumTables |-> TableNames[n]]

SUPPORTED_DB_TYPES == {"mysql", "sqlite", "postgresql"}
\* a db_type the adapter factory does not know
UnsupportedType == "oracle"
DbTypes == SUPPORTED_DB_TYPES \cup {UnsupportedType}

Absent == [exists |-> FALSE, rows |-> <<>>]
EmptyTable == [exists |-> TRUE, rows |-> <<>>]
FullRows == [r \in 1..MaxRows |-> r]
FullTable == [exists |-> TRUE, rows |-> FullRows]
\* a row left in the target by an earlier run
StaleTable == [exists |-> TRUE, rows |-> <<0>>]

NoDDL == [table |-> "", dialect |-> ""]

Range(s) == {s[n] : n \in 1..Len(s)}

\* the k-th smallest element of a set of numbers; the largest one below e, or 0
Nth(S, k) == CHOOSE n \in S : Cardinality({m \in S : m < n}) = k - 1
LastBefore(S, e) ==
    IF {m \in S : m < e} = {} THEN 0
    ELSE CHOOSE n \in S : n < e /\ \A m \in S : m < e => m <= n

VARIABLES
    \* SyncWorker / DatabaseMigration
    source_config, target_config, same_database,
    exclude_tables, include_tables, drop_target_tables, convert_types,
    source_adapter, target_adapter, connect_result,
    db,
    pc, source_tables, tables_to_migrate, i, success_count,
    create_sql, data, columns,
    calls, attempted, table_result, progress, returned, sync_finished,
    \* table-set resolution loops
    f_source, f_exclude, f_include, f_pos_m, f_out_m, f_pos_e, f_out_e,
    \* _execute_sql_script
    script, line_no, scan, exec_i, errors, exec_success_count,
    executed, imp_progress, imp_pc, imp_result,
    \* SyncWorker._run_export / _run_import and export_database
    x_entry, x_source_adapter, x_target_adapter, x_db,
    x_exclude, x_include, x_include_data,
    x_pc, x_tables, x_i, x_success_count, x_file, x_log,
    x_progress, x_returned, x_finished,
    \* one adapter object and its database
    a_connection, a_db, a_last, a_calls,
    \* export_table_sql: the batch loop
    b_data, b_include_data, b_i, b_inserts, b_pc,
    \* export_database to a file, then import_database of that file
    rt_src, rt_text, rt_written, rt_statements, rt_tgt, rt_i, rt_errors,
    rt_pc, rt_result,
    \* DataTypeMapper.map_type: one call
    mt_source_type, mt_source_db, mt_target_db, mt_result, mt_pc,
    \* DataTypeMapper.convert_create_table_sql: one call
    cv_create_sql, cv_source_db, cv_target_db, cv_source_quote, cv_target_quote, cv_result, cv_matches, cv_pc,
    \* test_adapter_connection: test_connection, get_table_list, close
    ct_db_type, ct_db, ct_connection, ct_pc, ct_success, ct_tables, ct_log,
    \* ScheduledTaskManager: the task list, the tasks file, and the last call
    tm_tasks, tm_file, tm_before, tm_op, tm_success, tm_message, tm_calls,
    \* TaskScheduler: the manager's task objects, the tasks file, the scheduler's jobs and the executing thread
    ts_tasks, ts_enabled, ts_status, ts_file, ts_jobs, ts_running, ts_thread, ts_next_id, ts_gui_calls, ts_runs

mig_vars == <<source_config, target_config, same_database,
              exclude_tables, include_tables, drop_target_tables, convert_types,
              source_adapter, target_adapter, connect_result, db,
              pc, source_tables, tables_to_migrate, i, success_count,
              create_sql, data, columns,
              calls, attempted, table_result, progress, returned, sync_finished>>
filter_vars == <<f_source, f_exclude, f_include, f_pos_m, f_out_m, f_pos_e, f_out_e>>
imp_vars == <<script, line_no, scan, exec_i, errors, exec_success_count,
              executed, imp_progress, imp_pc, imp_result>>
exp_cfg == <<x_entry, x_db, x_exclude, x_include, x_include_data>>
exp_vars == <<exp_cfg, x_source_adapter, x_target_adapter,
              x_pc, x_tables, x_i, x_success_count, x_file, x_log,
              x_progress, x_returned, x_finished>>
\* the variables of the specifications that follow the first three
ad_vars == <<a_connection, a_db, a_last, a_calls>>
bat_vars == <<b_data, b_include_data, b_i, b_inserts, b_pc>>
rt_vars == <<rt_src, rt_text, rt_written, rt_statements, rt_tgt, rt_i,
             rt_errors, rt_pc, rt_result>>
mt_vars == <<mt_source_type, mt_source_db, mt_target_db, mt_result, mt_pc>>
cv_vars == <<cv_create_sql, cv_source_db, cv_target_db, cv_source_quote,
             cv_target_quote, cv_result, cv_matches, cv_pc>>
ct_vars == <<ct_db_type, ct_db, ct_connection, ct_pc, ct_success, ct_tables,
             ct_log>>
tm_vars == <<tm_tasks, tm_file, tm_before, tm_op, tm_success, tm_message,
             tm_calls>>
ts_vars == <<ts_tasks, ts_enabled, ts_status, ts_file, ts_jobs, ts_running,
             ts_thread, ts_next_id, ts_gui_calls, ts_runs>>
ext_vars == <<exp_vars, ad_vars, bat_vars, rt_vars, mt_vars, cv_vars, ct_vars,
             tm_vars, ts_vars>>
\* what the actions of one specification leave alone
exp_others == <<mig_vars, filter_vars, imp_vars, ad_vars, bat_vars, rt_vars,
             mt_vars, cv_vars, ct_vars, tm_vars, ts_vars>>
ad_others == <<mig_vars, filter_vars, imp_vars, exp_vars, bat_vars, rt_vars,
             mt_vars, cv_vars, ct_vars, tm_vars, ts_vars>>
bat_others == <<mig_vars, filter_vars, imp_vars, exp_vars, ad_vars, rt_vars,
             mt_vars, cv_vars, ct_vars, tm_vars, ts_vars>>
rt_others == <<mig_vars, filter_vars, imp_vars, exp_vars, ad_vars, bat_vars,
             mt_vars, cv_vars, ct_vars, tm_vars, ts_vars>>
mt_others == <<mig_vars, filter_vars, imp_vars, exp_vars, ad_vars, bat_vars,
             rt_vars, cv_vars, ct_vars, tm_vars, ts_vars>>
cv_others == <<mig_vars, filter_vars, imp_vars, exp_vars, ad_vars, bat_vars,
             rt_vars, mt_vars, ct_vars, tm_vars, ts_vars>>
ct_others == <<mig_vars, filter_vars, imp_vars, exp_vars, ad_vars, bat_vars,
             rt_vars, mt_vars, cv_vars, tm_vars, ts_vars>>
tm_others == <<mig_vars, filter_vars, imp_vars, exp_vars, ad_vars, bat_vars,
             rt_vars, mt_vars, cv_vars, ct_vars, ts_vars>>
ts_others == <<mig_vars, filter_vars, imp_vars, exp_vars, ad_vars, bat_vars,
             rt_vars, mt_vars, cv_vars, ct_vars, tm_vars>>
vars == <<mig_vars, filter_vars, imp_vars, ext_vars>>

\* -------------------------------------------------------- adapter factory
\* get_adapter raises ValueError for a db_type outside the adapters map
GetAdapterRaises(db_type) == db_type \notin SUPPORTED_DB_TYPES

\* ------------------------------------------------------------ type mapper
\* type_mapping.py imports logging and typing only; `import re` is local to
\* convert_create_table_sql
ReIsModuleGlobal == FALSE

\* the branches of _handle_syntax_differences that call re.sub
HandleSyntaxUsesRe(source_db, target_db) ==
    \/ source_db = "mysql" /\ target_db \in {"sqlite", "postgresql"}
    \/ source_db = "postgresql" /\ target_db = "mysql"

\* NameError: name 're' is not defined
HandleSyntaxRaises(source_db, target_db) ==
    HandleSyntaxUsesRe(source_db, target_db) /\ ~ReIsModuleGlobal

ConvertRaises(source_db, target_db) == HandleSyntaxRaises(source_db, target_db)

\* the rewritten DDL names the same table in the target dialect
ConvertCreateTableSql(ddl, source_db, target_db) ==
    [ddl EXCEPT !.dialect = target_db]

\* --------------------------------------------------------- adapter operations
\* d is the content of one database: [AllTables -> [exists, rows]]

\* get_table_list: [] on error
GetTableList(d, fault) ==
    IF fault THEN <<>>
    ELSE SelectSeq(TableListOrder, LAMBDA t : d[t].exists)

\* get_table_structure: "" when the table is missing or on error
GetTableStructure(d, t, db_type, fault) ==
    IF fault \/ ~d[t].exists THEN NoDDL
    ELSE [table |-> t, dialect |-> db_type]

\* get_table_data: [] on error
GetTableData(d, t, fault) ==
    IF fault \/ ~d[t].exists THEN <<>> ELSE d[t].rows

\* get_table_columns: [] on error
GetTableColumns(d, t, fault) ==
    IF fault \/ ~d[t].exists THEN <<>> ELSE <<"id", "value">>

\* a rollback that leaves the rows executemany already inserted
Rollback_KeepsWork(committed, work) == work

\* connection.commit() / connection.rollback(): work is the transaction's view
Commit(committed, work) == work
Rollback(committed, work) == committed

\* drop_table: DROP TABLE IF EXISTS, commit; rollback and False on error
DropTable(d, t, fault) ==
    IF fault
    THEN [ok |-> FALSE, db |-> Rollback(d, d)]
    ELSE [ok |-> TRUE, db |-> Commit(d, [d EXCEPT ![t] = Absent])]

\* create_table: execute the DDL, commit; rollback and False on error
\* (a CREATE TABLE of an existing table is an error)
CreateTable(d, ddl, fault) ==
    IF fault \/ d[ddl.table].exists
    THEN [ok |-> FALSE, db |-> Rollback(d, d)]
    ELSE [ok |-> TRUE, db |-> Commit(d, [d EXCEPT ![ddl.table] = EmptyTable])]

\* insert_data: executemany inserts row after row in one transaction; row
\* k + 1 raises when k < Len(rows); then rollback and False, else commit
InsertData(d, t, cols, rows, k) ==
    IF rows = <<>> THEN [ok |-> TRUE, db |-> d]
    ELSE LET work == [d EXCEPT ![t].rows = @ \o SubSeq(rows, 1, k)]
         IN  IF k < Len(rows) \/ ~d[t].exists
             THEN [ok |-> FALSE, db |-> Rollback(d, work)]
             ELSE [ok |-> TRUE, db |-> Commit(d, work)]

\* ------------------------------------------------------ table-set resolution
\* a filter in which the include list overrides the exclude list
MigrateFilterStep_IncludeWins(out, tbl, exclude, include) ==
    IF include # <<>> /\ tbl \in Range(include) THEN Append(out, tbl)
    ELSE IF tbl \in Range(exclude) \/ include # <<>> THEN out
    ELSE Append(out, tbl)

\* one iteration of the filter loop of migrate_database
MigrateFilterStep(out, tbl, exclude, include) ==
    IF tbl \in Range(exclude) THEN out
    ELSE IF include # <<>> /\ tbl \notin Range(include) THEN out
    ELSE Append(out, tbl)

RECURSIVE MigrateFilterFrom(_, _, _, _, _)
MigrateFilterFrom(out, n, source, exclude, include) ==
    IF n > Len(source) THEN out
    ELSE MigrateFilterFrom(MigrateFilterStep(out, source[n], exclude, include),
                           n + 1, source, exclude, include)

TablesToMigrate(source, exclude, include) ==
    MigrateFilterFrom(<<>>, 1, source, exclude, include)

\* one iteration of the filter loop of export_database
ExportFilterStep(out, tbl, exclude, include) ==
    IF tbl \in Range(exclude) THEN out
    ELSE IF include # <<>> /\ tbl \notin Range(include) THEN out
    ELSE Append(out, tbl)

RECURSIVE ExportFilterFrom(_, _, _, _, _)
ExportFilterFrom(out, n, source, exclude, include) ==
    IF n > Len(source) THEN out
    ELSE ExportFilterFrom(ExportFilterStep(out, source[n], exclude, include),
                          n + 1, source, exclude, include)

TablesToExport(source, exclude, include) ==
    ExportFilterFrom(<<>>, 1, source, exclude, include)

\* progress = int((i / total_tables) * 100)
ProgressOf(k, total) == (k * 100) \div total

\* ---------------------------------------------------- SyncWorker._run_migration
SrcDb == "src"
TgtDb == IF same_database THEN "src" ELSE "tgt"

Call(adapter, op, tbl, ok) ==
    [adapter |-> adapter, op |-> op, table |-> tbl, ok |-> ok]

mig_cfg == <<source_config, target_config, same_database, exclude_tables,
             include_tables, drop_target_tables, convert_types>>

\* `if not self.target_config` and DatabaseMigration.__init__
RunMigrationStart ==
    /\ pc = "start"
    /\ IF target_config.present
       THEN /\ pc' = "connect"
            /\ UNCHANGED sync_finished
       ELSE /\ pc' = "done"
            /\ sync_finished' = [emitted |-> TRUE, success |-> FALSE]
    /\ UNCHANGED <<filter_vars, imp_vars, ext_vars, mig_cfg, connect_result, source_adapter, target_adapter, db, source_tables,
                   tables_to_migrate, i, success_count, create_sql, data, columns,
                   calls, attempted, table_result, progress, returned>>

\* connect() without the check of target_adapter.connect()
ConnectOutcome_IgnoresTarget(src_type, tgt_type, src_ok, tgt_ok) ==
    IF GetAdapterRaises(src_type)
    THEN [ok |-> FALSE, source |-> "none", target |-> "none"]
    ELSE IF GetAdapterRaises(tgt_type)
    THEN [ok |-> FALSE, source |-> "closed", target |-> "none"]
    ELSE IF ~src_ok
    THEN [ok |-> FALSE, source |-> "closed", target |-> "closed"]
    ELSE [ok |-> TRUE, source |-> "open",
          target |-> IF tgt_ok THEN "open" ELSE "closed"]

\* DatabaseMigration.connect: the adapters it leaves behind and its result
ConnectOutcome(src_type, tgt_type, src_ok, tgt_ok) ==
    IF GetAdapterRaises(src_type)
    THEN [ok |-> FALSE, source |-> "none", target |-> "none"]
    ELSE IF GetAdapterRaises(tgt_type)
    THEN [ok |-> FALSE, source |-> "closed", target |-> "none"]
    ELSE IF ~src_ok
    THEN [ok |-> FALSE, source |-> "closed", target |-> "closed"]
    ELSE IF ~tgt_ok
    THEN [ok |-> FALSE, source |-> "open", target |-> "closed"]
    ELSE [ok |-> TRUE, source |-> "open", target |-> "open"]

\* migration.connect() and the caller's `if not migration.connect(): return`
Connect ==
    /\ pc = "connect"
    /\ \E src_ok \in BOOLEAN, tgt_ok \in BOOLEAN :
         LET r == ConnectOutcome(source_config.db_type, target_config.db_type,
                                 src_ok, tgt_ok)
         IN  /\ source_adapter' = r.source
             /\ target_adapter' = r.target
             /\ connect_result' = [done |-> TRUE, value |-> r.ok]
             /\ IF r.ok
                THEN /\ pc' = "list"
                     /\ UNCHANGED sync_finished
                ELSE /\ pc' = "done"
                     /\ sync_finished' = [emitted |-> TRUE, success |-> FALSE]
    /\ UNCHANGED <<filter_vars, imp_vars, ext_vars, mig_cfg, db, source_tables, tables_to_migrate, i, success_count,
                   create_sql, data, columns, calls, attempted, table_result,
                   progress, returned>>

\* migrate_database up to the loop: list the source tables and filter them
ListTables ==
    /\ pc = "list"
    /\ \E fault \in BOOLEAN :
         LET listed == GetTableList(db[SrcDb], fault)
         IN  /\ source_tables' = listed
             /\ calls' = Append(calls, Call("source", "get_table_list", "",
                                             listed # <<>>))
             /\ IF listed = <<>>
                THEN /\ returned' = [done |-> TRUE, value |-> FALSE]
                     /\ pc' = "finish"
                     /\ UNCHANGED tables_to_migrate
                ELSE /\ tables_to_migrate' =
                          TablesToMigrate(listed, exclude_tables, include_tables)
                     /\ pc' = "loop"
                     /\ UNCHANGED returned
    /\ UNCHANGED <<filter_vars, imp_vars, ext_vars, mig_cfg, connect_result, source_adapter, target_adapter, db, i, success_count,
                   create_sql, data, columns, attempted, table_result, progress,
                   sync_finished>>

total_tables == Len(tables_to_migrate)
table == tables_to_migrate[i + 1]

\* the head of `for i, table in enumerate(tables_to_migrate)`: report progress
\* and enter migrate_table
LoopNext ==
    /\ pc = "loop"
    /\ i < total_tables
    /\ progress' = Append(progress, [percent |-> ProgressOf(i, total_tables),
                                      table |-> table])
    /\ attempted' = Append(attempted, table)
    /\ calls' = <<>>
    /\ pc' = "get_structure"
    /\ UNCHANGED <<filter_vars, imp_vars, ext_vars, mig_cfg, connect_result, source_adapter, target_adapter, db, source_tables,
                   tables_to_migrate, i, success_count, create_sql, data, columns,
                   table_result, returned, sync_finished>>

\* a loop that breaks at the first failed table
EndTable_StopOnFailure(ok) ==
    /\ table_result' = [table_result EXCEPT ![table] = IF ok THEN "ok" ELSE "failed"]
    /\ success_count' = IF ok THEN success_count + 1 ELSE success_count
    /\ i' = IF ok THEN i + 1 ELSE total_tables
    /\ pc' = "loop"

\* migrate_table returns ok: the loop counts it and moves on
EndTable(ok) ==
    /\ table_result' = [table_result EXCEPT ![table] = IF ok THEN "ok" ELSE "failed"]
    /\ success_count' = IF ok THEN success_count + 1 ELSE success_count
    /\ i' = i + 1
    /\ pc' = "loop"

AfterStructure ==
    IF convert_types THEN "convert"
    ELSE IF drop_target_tables THEN "drop" ELSE "create"

\* migrate_table: create_sql = source_adapter.get_table_structure(table_name)
GetStructure ==
    /\ pc = "get_structure"
    /\ \E fault \in BOOLEAN :
         LET ddl == GetTableStructure(db[SrcDb], table, source_config.db_type, fault)
         IN  /\ calls' = Append(calls, Call("source", "get_table_structure", table,
                                            ddl # NoDDL))
             /\ create_sql' = ddl
             /\ IF ddl = NoDDL
                THEN EndTable(FALSE)
                ELSE /\ pc' = AfterStructure
                     /\ UNCHANGED <<table_result, success_count, i>>
    /\ UNCHANGED <<filter_vars, imp_vars, ext_vars, mig_cfg, connect_result, source_adapter, target_adapter, db, source_tables,
                   tables_to_migrate, data, columns, attempted, progress,
                   returned, sync_finished>>

\* migrate_table: DataTypeMapper.convert_create_table_sql; an exception is
\* caught by `except Exception` and makes migrate_table return False
Convert ==
    /\ pc = "convert"
    /\ LET raises == ConvertRaises(source_config.db_type, target_config.db_type)
       IN  /\ calls' = Append(calls, Call("mapper", "convert_create_table_sql",
                                          table, ~raises))
           /\ IF raises
              THEN /\ EndTable(FALSE)
                   /\ UNCHANGED create_sql
              ELSE /\ create_sql' = ConvertCreateTableSql(create_sql,
                                         source_config.db_type, target_config.db_type)
                   /\ pc' = IF drop_target_tables THEN "drop" ELSE "create"
                   /\ UNCHANGED <<table_result, success_count, i>>
    /\ UNCHANGED <<filter_vars, imp_vars, ext_vars, mig_cfg, connect_result, source_adapter, target_adapter, db, source_tables,
                   tables_to_migrate, data, columns, attempted, progress,
                   returned, sync_finished>>

\* migrate_table: target_adapter.drop_table; a failure is only a warning
Drop ==
    /\ pc = "drop"
    /\ \E fault \in BOOLEAN :
         LET r == DropTable(db[TgtDb], table, fault)
         IN  /\ db' = [db EXCEPT ![TgtDb] = r.db]
             /\ calls' = Append(calls, Call("target", "drop_table", table, r.ok))
    /\ pc' = "create"
    /\ UNCHANGED <<filter_vars, imp_vars, ext_vars, mig_cfg, connect_result, source_adapter, target_adapter, source_tables,
                   tables_to_migrate, i, success_count, create_sql, data, columns,
                   attempted, table_result, progress, returned, sync_finished>>

\* migrate_table: target_adapter.create_table(create_sql)
Create ==
    /\ pc = "create"
    /\ \E fault \in BOOLEAN :
         LET r == CreateTable(db[TgtDb], create_sql, fault)
         IN  /\ db' = [db EXCEPT ![TgtDb] = r.db]
             /\ calls' = Append(calls, Call("target", "create_table", table, r.ok))
             /\ IF r.ok
                THEN /\ pc' = "get_data"
                     /\ UNCHANGED <<table_result, success_count, i>>
                ELSE EndTable(FALSE)
    /\ UNCHANGED <<filter_vars, imp_vars, ext_vars, mig_cfg, connect_result, source_adapter, target_adapter, source_tables,
                   tables_to_migrate, create_sql, data, columns, attempted,
                   progress, returned, sync_finished>>

\* migrate_table: data = source_adapter.get_table_data; no data is a success
GetData ==
    /\ pc = "get_data"
    /\ \E fault \in BOOLEAN :
         LET rows == GetTableData(db[SrcDb], table, fault)
         IN  /\ data' = rows
             /\ calls' = Append(calls, Call("source", "get_table_data", table,
                                            rows # <<>>))
             /\ IF rows = <<>>
                THEN EndTable(TRUE)
                ELSE /\ pc' = "get_columns"
                     /\ UNCHANGED <<table_result, success_count, i>>
    /\ UNCHANGED <<filter_vars, imp_vars, ext_vars, mig_cfg, connect_result, source_adapter, target_adapter, db, source_tables,
                   tables_to_migrate, create_sql, columns, attempted, progress,
                   returned, sync_finished>>

\* migrate_table: columns_info = source_adapter.get_table_columns
GetColumns ==
    /\ pc = "get_columns"
    /\ \E fault \in BOOLEAN :
         LET cols == GetTableColumns(db[SrcDb], table, fault)
         IN  /\ columns' = cols
             /\ calls' = Append(calls, Call("source", "get_table_columns", table,
                                            cols # <<>>))
             /\ IF cols = <<>>
                THEN EndTable(FALSE)
                ELSE /\ pc' = "insert"
                     /\ UNCHANGED <<table_result, success_count, i>>
    /\ UNCHANGED <<filter_vars, imp_vars, ext_vars, mig_cfg, connect_result, source_adapter, target_adapter, db, source_tables,
                   tables_to_migrate, create_sql, data, attempted, progress,
                   returned, sync_finished>>

\* migrate_table: target_adapter.insert_data(table_name, columns, data)
Insert ==
    /\ pc = "insert"
    /\ \E k \in 0..Len(data) :
         LET r == InsertData(db[TgtDb], table, columns, data, k)
         IN  /\ db' = [db EXCEPT ![TgtDb] = r.db]
             /\ calls' = Append(calls, Call("target", "insert_data", table, r.ok))
             /\ EndTable(r.ok)
    /\ UNCHANGED <<filter_vars, imp_vars, ext_vars, mig_cfg, connect_result, source_adapter, target_adapter, source_tables,
                   tables_to_migrate, create_sql, data, columns, attempted,
                   progress, returned, sync_finished>>

\* a result that is true as soon as one table succeeded
MigrateResult_AnySucceeded(succeeded, total) == succeeded > 0 \/ total = 0

\* the value migrate_database returns
MigrateResult(succeeded, total) == succeeded = total

\* migrate_database after the loop: final progress and the return value
LoopDone ==
    /\ pc = "loop"
    /\ i >= total_tables
    /\ progress' = Append(progress, [percent |-> 100, table |-> ""])
    /\ returned' = [done |-> TRUE,
                    value |-> MigrateResult(success_count, total_tables)]
    /\ pc' = "finish"
    /\ UNCHANGED <<filter_vars, imp_vars, ext_vars, mig_cfg, connect_result, source_adapter, target_adapter, db, source_tables,
                   tables_to_migrate, i, success_count, create_sql, data, columns,
                   calls, attempted, table_result, sync_finished>>

\* DatabaseMigration.close: each adapter object closes its connection
CloseAdapter(a) == IF a = "none" THEN "none" ELSE "closed"

\* _run_migration: emit sync_finished, then `finally: migration.close()`
Finish ==
    /\ pc = "finish"
    /\ sync_finished' = [emitted |-> TRUE, success |-> returned.value]
    /\ source_adapter' = CloseAdapter(source_adapter)
    /\ target_adapter' = CloseAdapter(target_adapter)
    /\ pc' = "done"
    /\ UNCHANGED <<filter_vars, imp_vars, ext_vars, mig_cfg, connect_result, db, source_tables, tables_to_migrate, i, success_count,
                   create_sql, data, columns, calls, attempted, table_result,
                   progress, returned>>

Next ==
    \/ RunMigrationStart
    \/ Connect
    \/ ListTables
    \/ LoopNext
    \/ GetStructure
    \/ Convert
    \/ Drop
    \/ Create
    \/ GetData
    \/ GetColumns
    \/ Insert
    \/ LoopDone
    \/ Finish

\* ------------------------------------------------------------------ Init
\* include_tables as the caller may write it: absent/empty, or a list in an
\* order of its own
IncludeChoices == {<<>>, <<TableNames[NumTables], TableNames[1]>>}
ExcludeChoices == {<<>>, <<TableNames[NumTables]>>}

SourceDatabases == [AllTables -> {EmptyTable, FullTable}]
TargetDatabases == {[t \in AllTables |-> Absent], [t \in AllTables |-> StaleTable]}

FilterIdle ==
    /\ f_source = <<>> /\ f_exclude = <<>> /\ f_include = <<>>
    /\ f_pos_m = 0 /\ f_out_m = <<>> /\ f_pos_e = 0 /\ f_out_e = <<>>

ImpIdle ==
    /\ script = <<>> /\ line_no = 0
    /\ scan = [current_statement |-> <<>>, in_delimiter |-> FALSE,
               sql_statements |-> <<>>]
    /\ exec_i = 0 /\ errors = <<>> /\ exec_success_count = 0
    /\ executed = <<>> /\ imp_progress = <<>> /\ imp_pc = "idle"
    /\ imp_result = [done |-> FALSE, success |-> FALSE, errors |-> <<>>]

ExpIdle ==
    /\ x_entry = "idle"
    /\ x_source_adapter = "none" /\ x_target_adapter = "none"
    /\ x_db = [t \in AllTables |-> Absent]
    /\ x_exclude = <<>> /\ x_include = <<>> /\ x_include_data = TRUE
    /\ x_pc = "idle" /\ x_tables = <<>> /\ x_i = 0 /\ x_success_count = 0
    /\ x_file = <<>>
    /\ x_log = <<>>
    /\ x_progress = <<>>
    /\ x_returned = [done |-> FALSE, value |-> FALSE]
    /\ x_finished = [emitted |-> FALSE, success |-> FALSE, raised |-> FALSE]

NoCall == [op |-> "", table |-> "", raised |-> FALSE, failed |-> FALSE,
           connected |-> FALSE]

AdIdle ==
    /\ a_connection = "none"
    /\ a_db = [t \in AllTables |-> Absent]
    /\ a_last = NoCall
    /\ a_calls = 0

BatIdle ==
    /\ b_data = <<>> /\ b_include_data = TRUE /\ b_i = 0
    /\ b_inserts = <<>> /\ b_pc = "idle"

RtIdle ==
    /\ rt_src = <<>> /\ rt_text = <<>> /\ rt_written = <<>>
    /\ rt_statements = <<>> /\ rt_tgt = <<>> /\ rt_i = 0 /\ rt_errors = <<>>
    /\ rt_pc = "idle"
    /\ rt_result = [done |-> FALSE, success |-> FALSE]

MtIdle ==
    /\ mt_source_type = <<>> /\ mt_source_db = "" /\ mt_target_db = ""
    /\ mt_result = <<>> /\ mt_pc = "idle"

CvIdle ==
    /\ cv_create_sql = <<>> /\ cv_source_db = "" /\ cv_target_db = ""
    /\ cv_source_quote = "" /\ cv_target_quote = ""
    /\ cv_result = <<>> /\ cv_matches = <<>> /\ cv_pc = "idle"

CtIdle ==
    /\ ct_db_type = "" /\ ct_db = <<>> /\ ct_connection = "none"
    /\ ct_pc = "idle" /\ ct_success = FALSE /\ ct_tables = <<>> /\ ct_log = <<>>

TmIdle ==
    /\ tm_tasks = <<>>
    /\ tm_file = <<>>
    /\ tm_before = <<>>
    /\ tm_op = "none"
    /\ tm_success = TRUE
    /\ tm_message = ""
    /\ tm_calls = 0

TsIdle ==
    /\ ts_tasks = <<>>
    /\ ts_enabled = <<>>
    /\ ts_status = <<>>
    /\ ts_file = <<>>
    /\ ts_jobs = <<>>
    /\ ts_running = FALSE
    /\ ts_thread = <<>>
    /\ ts_next_id = 0
    /\ ts_gui_calls = 0
    /\ ts_runs = 0

ExtIdle ==
    ExpIdle /\ AdIdle /\ BatIdle /\ RtIdle /\ MtIdle /\ CvIdle /\ CtIdle /\ TmIdle /\ TsIdle

MigInit ==
    /\ source_config \in [db_type : DbTypes]
    /\ target_config \in [present : BOOLEAN, db_type : DbTypes]
    /\ ~target_config.present => target_config.db_type = "mysql"
    /\ same_database \in BOOLEAN
    /\ same_database => /\ target_config.present
                        /\ source_config.db_type = target_config.db_type
    /\ exclude_tables \in ExcludeChoices
    /\ include_tables \in IncludeChoices
    /\ drop_target_tables \in BOOLEAN
    /\ convert_types \in BOOLEAN
    /\ source_adapter = "none"
    /\ target_adapter = "none"
    /\ connect_result = [done |-> FALSE, value |-> FALSE]
    /\ \E s \in SourceDatabases, g \in TargetDatabases :
         /\ same_database => g = [t \in AllTables |-> Absent]
         /\ db = [side \in {"src", "tgt"} |-> IF side = "src" THEN s ELSE g]
    /\ pc = "start"
    /\ source_tables = <<>>
    /\ tables_to_migrate = <<>>
    /\ i = 0
    /\ success_count = 0
    /\ create_sql = NoDDL
    /\ data = <<>>
    /\ columns = <<>>
    /\ calls = <<>>
    /\ attempted = <<>>
    /\ table_result = [t \in AllTables |-> "none"]
    /\ progress = <<>>
    /\ returned = [done |-> FALSE, value |-> FALSE]
    /\ sync_finished = [emitted |-> FALSE, success |-> FALSE]

Init == MigInit /\ FilterIdle /\ ImpIdle /\ ExtIdle

Spec == Init /\ [][Next]_vars

\* ======================================================================
\* SpecFilter: the table-set resolution of migrate_database (lines 166-177)
\* and of export_database (lines 233-244) on the same inputs

MigIdle ==
    /\ source_config = [db_type |-> "mysql"]
    /\ target_config = [present |-> FALSE, db_type |-> "mysql"]
    /\ same_database = FALSE
    /\ exclude_tables = <<>> /\ include_tables = <<>>
    /\ drop_target_tables = TRUE /\ convert_types = TRUE
    /\ source_adapter = "none" /\ target_adapter = "none"
    /\ connect_result = [done |-> FALSE, value |-> FALSE]
    /\ db = [side \in {"src", "tgt"} |-> [t \in AllTables |-> Absent]]
    /\ pc = "idle"
    /\ source_tables = <<>> /\ tables_to_migrate = <<>>
    /\ i = 0 /\ success_count = 0
    /\ create_sql = NoDDL /\ data = <<>> /\ columns = <<>>
    /\ calls = <<>> /\ attempted = <<>>
    /\ table_result = [t \in AllTables |-> "none"]
    /\ progress = <<>>
    /\ returned = [done |-> FALSE, value |-> FALSE]
    /\ sync_finished = [emitted |-> FALSE, success |-> FALSE]

FilterNames == [n \in 1..NumFilterTables |-> TableNames[n]]
FilterNamesReversed ==
    [n \in 1..NumFilterTables |-> TableNames[NumFilterTables + 1 - n]]
FilterUniverse == Range(FilterNames)

\* a source table list: distinct names, in the listing order or its reverse
SourceLists ==
    {SelectSeq(FilterNames, LAMBDA t : t \in S) : S \in SUBSET FilterUniverse}
    \cup {SelectSeq(FilterNamesReversed, LAMBDA t : t \in S) :
             S \in SUBSET FilterUniverse}

\* the caller's lists, written in an order of their own
CallerLists ==
    {SelectSeq(FilterNamesReversed, LAMBDA t : t \in S) :
       S \in SUBSET FilterUniverse}

FilterInit ==
    /\ f_source \in SourceLists
    /\ f_exclude \in CallerLists
    /\ f_include \in CallerLists
    /\ f_pos_m = 0 /\ f_out_m = <<>>
    /\ f_pos_e = 0 /\ f_out_e = <<>>

\* migrate_database: one iteration of `for table in source_tables`
MigrateFilterIter ==
    /\ f_pos_m < Len(f_source)
    /\ f_out_m' = MigrateFilterStep(f_out_m, f_source[f_pos_m + 1],
                                    f_exclude, f_include)
    /\ f_pos_m' = f_pos_m + 1
    /\ UNCHANGED <<mig_vars, imp_vars, ext_vars, f_source, f_exclude, f_include,
                   f_pos_e, f_out_e>>

\* export_database: one iteration of `for table in tables`
ExportFilterIter ==
    /\ f_pos_m = Len(f_source)
    /\ f_pos_e < Len(f_source)
    /\ f_out_e' = ExportFilterStep(f_out_e, f_source[f_pos_e + 1],
                                   f_exclude, f_include)
    /\ f_pos_e' = f_pos_e + 1
    /\ UNCHANGED <<mig_vars, imp_vars, ext_vars, f_source, f_exclude, f_include,
                   f_pos_m, f_out_m>>

InitFilter == MigIdle /\ FilterInit /\ ImpIdle /\ ExtIdle

NextFilter ==
    \/ MigrateFilterIter
    \/ ExportFilterIter

SpecFilter == InitFilter /\ [][NextFilter]_vars

\* a source table is kept: not excluded and, with a non-empty include list,
\* included
Kept(t) ==
    /\ t \notin Range(f_exclude)
    /\ f_include # <<>> => t \in Range(f_include)

WorkingSetOf(source) == SelectSeq(source, Kept)

\* C3: the working set of migrate_database and of export_database is exactly
\* the source tables that are not excluded and, when include_tables is not
\* empty, are included; an empty include list keeps every table that is not
\* excluded; the order of the source list is kept; exclusion wins.
C3_TableSetResolution ==
    /\ f_out_m = WorkingSetOf(SubSeq(f_source, 1, f_pos_m))
    /\ f_out_e = WorkingSetOf(SubSeq(f_source, 1, f_pos_e))
    /\ f_pos_m = Len(f_source) =>
          /\ f_out_m = TablesToMigrate(f_source, f_exclude, f_include)
          /\ Range(f_out_m) =
                (Range(f_source) \ Range(f_exclude))
                \cap (IF f_include = <<>> THEN Range(f_source)
                      ELSE Range(f_include))
          /\ \A m, n \in 1..Len(f_out_m) :
                m < n => \E a, b \in 1..Len(f_source) :
                           a < b /\ f_source[a] = f_out_m[m]
                                 /\ f_source[b] = f_out_m[n]
    /\ f_pos_e = Len(f_source) =>
          /\ f_out_e = TablesToExport(f_source, f_exclude, f_include)
          /\ f_out_e = f_out_m

\* the spec's example with one table in both lists: source A,B,C,D, exclude B,
\* include A,B,C: the working set is A,C in source order
C3_Witness ==
    /\ f_pos_m = Len(f_source) /\ f_pos_e = Len(f_source)
    /\ f_source = <<"A", "B", "C", "D">>
    /\ f_exclude = <<"B">>
    /\ f_include = <<"C", "B", "A">>
    /\ f_out_m = <<"A", "C">> /\ f_out_e = <<"A", "C">>

\* ======================================================================
\* _execute_sql_script: the line scanner (lines 331-356)
\* A line and a statement are sequences of characters.

Whitespace == {" ", "\t"}

\* str.strip()
RECURSIVE LStrip(_)
LStrip(str) ==
    IF str # <<>> /\ Head(str) \in Whitespace THEN LStrip(Tail(str)) ELSE str

RECURSIVE RStrip(_)
RStrip(str) ==
    IF str # <<>> /\ str[Len(str)] \in Whitespace
    THEN RStrip(SubSeq(str, 1, Len(str) - 1))
    ELSE str

Strip(str) == RStrip(LStrip(str))

\* str.startswith(prefix), str.endswith(suffix)
StartsWith(str, prefix) ==
    Len(str) >= Len(prefix) /\ SubSeq(str, 1, Len(prefix)) = prefix

EndsWith(str, suffix) ==
    Len(str) >= Len(suffix)
    /\ SubSeq(str, Len(str) - Len(suffix) + 1, Len(str)) = suffix

\* str.upper() on the letters of the word "delimiter"
UpperChar(c) ==
    CASE c = "d" -> "D" [] c = "e" -> "E" [] c = "l" -> "L" [] c = "i" -> "I"
      [] c = "m" -> "M" [] c = "t" -> "T" [] c = "r" -> "R" [] OTHER -> c

Upper(str) == [n \in 1..Len(str) |-> UpperChar(str[n])]

DELIMITER == <<"D", "E", "L", "I", "M", "I", "T", "E", "R">>

InitialScan ==
    [current_statement |-> <<>>, in_delimiter |-> FALSE, sql_statements |-> <<>>]

\* a scanner that goes on splitting after a DELIMITER line
ScanStep_KeepsSplitting(st, line) ==
    LET stripped_line == Strip(line)
    IN  IF StartsWith(stripped_line, <<"-", "-">>) \/ StartsWith(stripped_line, <<"#">>)
        THEN st
        ELSE IF StartsWith(Upper(stripped_line), DELIMITER)
        THEN [st EXCEPT !.in_delimiter = TRUE]
        ELSE LET current == st.current_statement \o line \o <<" ">>
             IN  IF EndsWith(stripped_line, <<";">>)
                 THEN [st EXCEPT !.sql_statements = Append(@, Strip(current)),
                                 !.current_statement = <<>>]
                 ELSE [st EXCEPT !.current_statement = current]

\* a scanner that tests the raw line, not the stripped one, for the final ';'
ScanStep_NoStrip(st, line) ==
    LET stripped_line == Strip(line)
    IN  IF StartsWith(stripped_line, <<"-", "-">>) \/ StartsWith(stripped_line, <<"#">>)
        THEN st
        ELSE IF StartsWith(Upper(stripped_line), DELIMITER)
        THEN [st EXCEPT !.in_delimiter = TRUE]
        ELSE LET current == st.current_statement \o line \o <<" ">>
             IN  IF EndsWith(line, <<";">>) /\ ~st.in_delimiter
                 THEN [st EXCEPT !.sql_statements = Append(@, Strip(current)),
                                 !.current_statement = <<>>]
                 ELSE [st EXCEPT !.current_statement = current]

\* the body of `for line in sql_content.splitlines()`
ScanStep(st, line) ==
    LET stripped_line == Strip(line)
    IN  IF StartsWith(stripped_line, <<"-", "-">>) \/ StartsWith(stripped_line, <<"#">>)
        THEN st
        ELSE IF StartsWith(Upper(stripped_line), DELIMITER)
        THEN [st EXCEPT !.in_delimiter = TRUE]
        ELSE LET current == st.current_statement \o line \o <<" ">>
             IN  IF EndsWith(stripped_line, <<";">>) /\ ~st.in_delimiter
                 THEN [st EXCEPT !.sql_statements = Append(@, Strip(current)),
                                 !.current_statement = <<>>]
                 ELSE [st EXCEPT !.current_statement = current]

\* after the loop: `if current_statement.strip(): sql_statements.append(...)`
ScanFinish(st) ==
    IF Strip(st.current_statement) # <<>>
    THEN [st EXCEPT !.sql_statements = Append(@, Strip(st.current_statement))]
    ELSE st

RECURSIVE ScanFrom(_, _, _)
ScanFrom(st, n, lines) ==
    IF n > Len(lines) THEN ScanFinish(st)
    ELSE ScanFrom(ScanStep(st, lines[n]), n + 1, lines)

\* the statements _execute_sql_script parses from the lines of a script
SplitStatements(lines) == ScanFrom(InitialScan, 1, lines).sql_statements

\* the lines scripts are made of
ScriptLines ==
    { <<"a">>,
      <<"b", ";">>,
      <<" ", "c", ";", " ">>,
      <<>>,
      <<"-", "-", " ", "x", ";">>,
      <<" ", "#", "y">>,
      <<"d", "e", "l", "i", "m", "i", "t", "e", "r", " ", ";">> }

ScriptsUpTo(n) == UNION {[1..m -> ScriptLines] : m \in 0..n}

\* SpecSplit: the scanner alone, line by line
SplitInit ==
    /\ script \in ScriptsUpTo(MaxLines)
    /\ line_no = 0
    /\ scan = InitialScan
    /\ exec_i = 0 /\ errors = <<>> /\ exec_success_count = 0
    /\ executed = <<>> /\ imp_progress = <<>>
    /\ imp_pc = "scan"
    /\ imp_result = [done |-> FALSE, success |-> FALSE, errors |-> <<>>]

\* one line of the script
ScanLine ==
    /\ imp_pc = "scan"
    /\ line_no < Len(script)
    /\ scan' = ScanStep(scan, script[line_no + 1])
    /\ line_no' = line_no + 1
    /\ UNCHANGED <<mig_vars, filter_vars, ext_vars, script, exec_i, errors,
                   exec_success_count, executed, imp_progress, imp_pc, imp_result>>

\* the end of the script: the last statement
ScanEnd ==
    /\ imp_pc = "scan"
    /\ line_no = Len(script)
    /\ scan' = ScanFinish(scan)
    /\ imp_pc' = "scanned"
    /\ UNCHANGED <<mig_vars, filter_vars, ext_vars, script, line_no, exec_i, errors,
                   exec_success_count, executed, imp_progress, imp_result>>

InitSplit == MigIdle /\ FilterIdle /\ SplitInit /\ ExtIdle

NextSplit ==
    \/ ScanLine
    \/ ScanEnd

SpecSplit == InitSplit /\ [][NextSplit]_vars

\* ---------------------------------------------------------------------
\* SpecImport: import_database = read the file, scan it, execute the
\* statements one by one (lines 291-324 and 360-391)

\* `(i + 1) % 100 == 0`
ProgressEvery == 100

ImportInit ==
    /\ script \in ScriptsUpTo(MaxImportLines)
    /\ line_no = 0
    /\ scan = InitialScan
    /\ exec_i = 0 /\ errors = <<>> /\ exec_success_count = 0
    /\ executed = <<>> /\ imp_progress = <<>>
    /\ imp_pc = "read"
    /\ imp_result = [done |-> FALSE, success |-> FALSE, errors |-> <<>>]

\* import_database: open/read raises; `except Exception: return False, [str(e)]`
ImportReadFails ==
    /\ imp_pc = "read"
    /\ imp_result' = [done |-> TRUE, success |-> FALSE,
                      errors |-> <<[statement |-> 0, kind |-> "read"]>>]
    /\ imp_pc' = "done"
    /\ UNCHANGED <<mig_vars, filter_vars, ext_vars, script, line_no, scan, exec_i, errors,
                   exec_success_count, executed, imp_progress>>

\* _execute_sql_script: split the whole content into statements
ImportScan ==
    /\ imp_pc = "read"
    /\ scan' = ScanFrom(InitialScan, 1, script)
    /\ line_no' = Len(script)
    /\ imp_pc' = "exec"
    /\ UNCHANGED <<mig_vars, filter_vars, ext_vars, script, exec_i, errors,
                   exec_success_count, executed, imp_progress, imp_result>>

total_statements == Len(scan.sql_statements)

\* an execution loop that swallows an exception without recording it
RecordOutcome_SwallowsRaise(errs, n, outcome) ==
    IF outcome = "false"
    THEN Append(errs, [statement |-> n, kind |-> "returned"])
    ELSE errs

\* errors after statement n: execute_sql returned (False, msg), or raised
RecordOutcome(errs, n, outcome) ==
    IF outcome = "ok" THEN errs
    ELSE IF outcome = "false"
    THEN Append(errs, [statement |-> n, kind |-> "returned"])
    ELSE Append(errs, [statement |-> n, kind |-> "raised"])

\* the progress report after statement n, skipped when execute_sql raised
ReportAfter(prog, n, total, outcome) ==
    IF outcome # "raise" /\ (n % ProgressEvery = 0 \/ n = total)
    THEN Append(prog, [percent |-> (n * 100) \div total, statement |-> n])
    ELSE prog

\* one iteration of `for i, statement in enumerate(sql_statements)`
ExecStatement ==
    /\ imp_pc = "exec"
    /\ exec_i < total_statements
    /\ LET statement == scan.sql_statements[exec_i + 1]
       IN  IF Strip(statement) = <<>>
           THEN UNCHANGED <<errors, exec_success_count, executed, imp_progress>>
           ELSE \E outcome \in {"ok", "false", "raise"} :
                  /\ executed' = Append(executed, [statement |-> statement,
                                                   index |-> exec_i + 1,
                                                   outcome |-> outcome])
                  /\ exec_success_count' = IF outcome = "ok"
                                           THEN exec_success_count + 1
                                           ELSE exec_success_count
                  /\ errors' = RecordOutcome(errors, exec_i + 1, outcome)
                  /\ imp_progress' = ReportAfter(imp_progress, exec_i + 1,
                                                 total_statements, outcome)
    /\ exec_i' = exec_i + 1
    /\ UNCHANGED <<mig_vars, filter_vars, ext_vars, script, line_no, scan, imp_pc,
                   imp_result>>

\* `if errors: return False, errors  else: return True, []`
ScriptResult(errs) ==
    IF errs # <<>>
    THEN [done |-> TRUE, success |-> FALSE, errors |-> errs]
    ELSE [done |-> TRUE, success |-> TRUE, errors |-> <<>>]

\* the end of the loop: _execute_sql_script and import_database return
ExecReturn ==
    /\ imp_pc = "exec"
    /\ exec_i = total_statements
    /\ imp_result' = ScriptResult(errors)
    /\ imp_pc' = "done"
    /\ UNCHANGED <<mig_vars, filter_vars, ext_vars, script, line_no, scan, exec_i, errors,
                   exec_success_count, executed, imp_progress>>

InitImport == MigIdle /\ FilterIdle /\ ImportInit /\ ExtIdle

NextImport ==
    \/ ImportReadFails
    \/ ImportScan
    \/ ExecStatement
    \/ ExecReturn

SpecImport == InitImport /\ [][NextImport]_vars

FailedRuns == {n \in 1..Len(executed) : executed[n].outcome # "ok"}

\* C8: every parsed statement goes to execute_sql exactly once, in file
\* order; a statement that fails (returns false or raises) adds exactly one
\* entry to the error list and does not stop the later statements; the
\* success flag is true iff the returned error list is empty.
C8_CollectAndContinue ==
    /\ imp_pc \in {"exec", "done"} /\ line_no = Len(script) /\ scan # InitialScan =>
          /\ Len(executed) = exec_i
          /\ \A n \in 1..Len(executed) :
                /\ executed[n].index = n
                /\ executed[n].statement = scan.sql_statements[n]
          /\ Len(errors) = Cardinality(FailedRuns)
          /\ \A k \in 1..Len(errors) : errors[k].statement = Nth(FailedRuns, k)
          /\ exec_success_count = exec_i - Cardinality(FailedRuns)
    /\ (imp_pc = "done" /\ line_no = Len(script) /\ executed # <<>>) =>
          /\ Len(executed) = total_statements
          /\ imp_result.errors = errors
          /\ imp_result.success = (FailedRuns = {})
    /\ imp_result.done => (imp_result.success = (imp_result.errors = <<>>))

C8_Witness ==
    /\ imp_result.done
    /\ Len(executed) = 3
    /\ executed[1].outcome = "false"
    /\ executed[2].outcome = "raise"
    /\ executed[3].outcome = "ok"
    /\ ~imp_result.success /\ Len(imp_result.errors) = 2

\* ---------------------------------------------------------------------
\* Properties of the scanner (SpecSplit)

IsCommentLine(line) ==
    StartsWith(Strip(line), <<"-", "-">>) \/ StartsWith(Strip(line), <<"#">>)

IsDelimiterLine(line) ==
    ~IsCommentLine(line) /\ StartsWith(Upper(Strip(line)), DELIMITER)

HasDelimiterLine(sc) == \E n \in 1..Len(sc) : IsDelimiterLine(sc[n])

EndsWithSemicolon(line) == EndsWith(Strip(line), <<";">>)

\* the lines whose stripped text ends with ';'
SemicolonLines(sc) == {n \in 1..Len(sc) : EndsWithSemicolon(sc[n])}

\* those of them that are not comment lines
TerminatorLines(sc) == {n \in SemicolonLines(sc) : ~IsCommentLine(sc[n])}

\* the non-comment lines lo..hi, each followed by a blank
RECURSIVE JoinLines(_, _, _)
JoinLines(sc, lo, hi) ==
    IF lo > hi THEN <<>>
    ELSE (IF IsCommentLine(sc[lo]) THEN <<>> ELSE sc[lo] \o <<" ">>)
         \o JoinLines(sc, lo + 1, hi)


\* the text after the last line of T
TrailingText(sc, T) == Strip(JoinLines(sc, LastBefore(T, Len(sc) + 1) + 1, Len(sc)))

\* one statement per line of T, made of the non-comment lines since the
\* line of T before it, and one more for non-blank trailing text
StatementsCutAt(sc, T) ==
    [k \in 1..Cardinality(T) |->
        Strip(JoinLines(sc, LastBefore(T, Nth(T, k)) + 1, Nth(T, k)))]
    \o (IF TrailingText(sc, T) # <<>> THEN <<TrailingText(sc, T)>> ELSE <<>>)

Scanned == imp_pc = "scanned" /\ ~HasDelimiterLine(script)

\* C9 (as stated): without a DELIMITER line the scanner emits one statement
\* per line whose stripped text ends with ';', plus one for non-blank
\* trailing text; comment lines are in no statement; no statement is empty.
C9_OneStatementPerSemicolonLine ==
    Scanned =>
        /\ Len(scan.sql_statements) =
              Cardinality(SemicolonLines(script))
              + (IF TrailingText(script, SemicolonLines(script)) # <<>>
                 THEN 1 ELSE 0)
        /\ \A n \in 1..Len(scan.sql_statements) : scan.sql_statements[n] # <<>>

\* C9 (amended): without a DELIMITER line the scanner emits one statement per
\* line that is not a comment line and whose stripped text ends with ';' (the
\* non-comment lines since the previous emission, joined by blanks and
\* stripped), plus one for non-blank trailing text; the characters of a
\* comment line are in no statement; no statement is empty.
C9_OneStatementPerTerminatedLine ==
    Scanned =>
        /\ scan.sql_statements = StatementsCutAt(script, TerminatorLines(script))
        /\ Len(scan.sql_statements) =
              Cardinality(TerminatorLines(script))
              + (IF TrailingText(script, TerminatorLines(script)) # <<>>
                 THEN 1 ELSE 0)
        /\ \A n \in 1..Len(scan.sql_statements) :
              /\ scan.sql_statements[n] # <<>>
              /\ Range(scan.sql_statements[n]) \cap {"-", "#", "x", "y"} = {}
        /\ scan.sql_statements = SplitStatements(script)

\* three semicolon-terminated statements and two comment lines, one with
\* `--` and one with `#`, give three statements
C9_Witness ==
    /\ Scanned
    /\ Len(script) = 5
    /\ Cardinality(TerminatorLines(script)) = 3
    /\ \E m, n \in 1..5 :
          /\ StartsWith(Strip(script[m]), <<"-", "-">>)
          /\ StartsWith(Strip(script[n]), <<"#">>)
    /\ script[5] = <<"-", "-", " ", "x", ";">>
    /\ Len(scan.sql_statements) = 3

\* ======================================================================
\* Properties of one migration run (Spec)

WorkingSet == Range(tables_to_migrate)
Failed == {t \in AllTables : table_result[t] = "failed"}
Succeeded == {t \in AllTables : table_result[t] = "ok"}

\* a migrate_table call has just returned; calls is its log
TableEnded == pc = "loop" /\ i > 0 /\ calls # <<>>
last_table == tables_to_migrate[i]
last_call == calls[Len(calls)]
Ops == [n \in 1..Len(calls) |-> calls[n].op]
Called(op) == \E n \in 1..Len(calls) : calls[n].op = op
CalledOk(op) == \E n \in 1..Len(calls) : calls[n].op = op /\ calls[n].ok

\* C1: with a non-empty source table list, migrate_database returns true iff
\* migrate_table returned true for every table of the working set: the count
\* of successes is the number of tables that succeeded, one failed table makes
\* the result false, and tables outside the working set play no part.
C1_ReturnsTrueIffAllSucceeded ==
    (returned.done /\ source_tables # <<>>) =>
        /\ returned.value = (\A t \in WorkingSet : table_result[t] = "ok")
        /\ success_count = Cardinality(Succeeded)
        /\ returned.value = (success_count = Cardinality(WorkingSet))
        /\ Failed # {} => ~returned.value
        /\ \A t \in AllTables \ WorkingSet : table_result[t] = "none"

C1_Witness ==
    /\ returned.done /\ ~returned.value
    /\ Succeeded # {} /\ Cardinality(Failed) = 1
    /\ AllTables \ WorkingSet # {}

\* C2: every table of the working set is attempted exactly once, in the order
\* of the source adapter's get_table_list, and a failed table never keeps the
\* later ones from being attempted.
C2_EveryTableAttemptedInListOrder ==
    /\ attempted = SubSeq(tables_to_migrate, 1, Len(attempted))
    /\ \A m, n \in 1..Len(attempted) : m # n => attempted[m] # attempted[n]
    /\ (returned.done /\ source_tables # <<>>) =>
          /\ attempted = SelectSeq(source_tables, LAMBDA t : t \in WorkingSet)
          /\ \A t \in WorkingSet : table_result[t] # "none"

C2_Witness ==
    /\ returned.done
    /\ Len(attempted) >= 2
    /\ Len(include_tables) = 2 /\ attempted[1] = include_tables[2]
    /\ attempted[2] = include_tables[1]
    /\ table_result[attempted[1]] = "failed"
    /\ table_result[attempted[2]] = "ok"

\* C4: when connecting the source or the target fails (an unsupported db_type
\* included) connect() returns false and the run ends without one table
\* operation on either adapter; migrate_database returns false at once,
\* without a call on the target, when the source lists no table.
C4_ConnectionFailureAbortsBeforeAnyTable ==
    /\ (connect_result.done /\ ~connect_result.value) =>
          /\ pc = "done" /\ calls = <<>> /\ attempted = <<>>
          /\ ~returned.done
          /\ sync_finished = [emitted |-> TRUE, success |-> FALSE]
    /\ (connect_result.done /\ connect_result.value /\ pc # "done") =>
          source_adapter = "open" /\ target_adapter = "open"
    /\ (connect_result.done /\ (GetAdapterRaises(source_config.db_type)
                                  \/ GetAdapterRaises(target_config.db_type))) =>
          ~connect_result.value
    /\ (calls # <<>> \/ attempted # <<>>) => connect_result.value
    /\ (returned.done /\ source_tables = <<>>) =>
          /\ ~returned.value /\ attempted = <<>>
          /\ \A n \in 1..Len(calls) : calls[n].adapter = "source"
                                        /\ calls[n].op = "get_table_list"

C4_Witness ==
    /\ pc = "done"
    /\ connect_result.done /\ ~connect_result.value
    /\ source_adapter = "open" /\ target_adapter = "closed"

\* the steps of migrate_table in order, for the flags of this run
Protocol ==
    <<"get_table_structure">>
    \o (IF convert_types THEN <<"convert_create_table_sql">> ELSE <<>>)
    \o (IF drop_target_tables THEN <<"drop_table">> ELSE <<>>)
    \o <<"create_table", "get_table_data", "get_table_columns", "insert_data">>

FatalSteps == {"get_table_structure", "create_table", "get_table_columns",
               "insert_data"}

\* C5: migrate_table runs the protocol in order and returns false at the first
\* of: DDL empty, create fails, columns empty with rows present, insert fails,
\* and only there; a failed drop is not fatal; nothing is called after a fatal
\* step; insert_data is called only after create_table returned true.
C5_MigrateTableProtocol ==
    /\ attempted # <<>> =>
          /\ Len(calls) <= Len(Protocol)
          /\ Ops = SubSeq(Protocol, 1, Len(calls))
          /\ \A n \in 1..(Len(calls) - 1) :
                calls[n].op \in FatalSteps => calls[n].ok
          /\ Called("insert_data") => CalledOk("create_table")
    /\ TableEnded =>
          /\ table_result[last_table] = "failed" <=>
                (last_call.op \in FatalSteps /\ ~last_call.ok)
          /\ table_result[last_table] = "ok" <=>
                \/ last_call.op = "get_table_data" /\ ~last_call.ok
                \/ last_call.op = "insert_data" /\ last_call.ok

\* C6: a source table with a DDL and zero rows: the target table is created,
\* get_table_columns and insert_data are not called, and the result is true
\* (when the target accepts the CREATE TABLE).
C6_EmptyTableMigrates ==
    (/\ TableEnded
     /\ calls[1].op = "get_table_structure" /\ calls[1].ok
     /\ db[SrcDb][last_table].rows = <<>>) =>
        /\ Called("create_table")
        /\ ~Called("get_table_columns")
        /\ ~Called("insert_data")
        /\ CalledOk("create_table") =>
              /\ table_result[last_table] = "ok"
              /\ db[TgtDb][last_table] = EmptyTable

\* C7: an insert_data whose batch has a failing row rolls back and returns
\* false: the target table holds none of the rows of the batch afterwards and
\* migrate_table reports the table as failed.
C7_FailedBatchLeavesNoRow ==
    (TableEnded /\ last_call.op = "insert_data" /\ ~last_call.ok) =>
        /\ table_result[last_table] = "failed"
        /\ Range(db[TgtDb][last_table].rows) \cap Range(data) = {}
        /\ db[TgtDb][last_table] = EmptyTable

C7_Witness ==
    /\ TableEnded /\ last_call.op = "insert_data" /\ ~last_call.ok
    /\ Len(data) = MaxRows

\* C10: the run's result carries the number of tables attempted, the number
\* succeeded and an entry for every failed table, keyed by its name.
C10_FailuresRetrievable ==
    (returned.done /\ Failed # {}) =>
        /\ {"tablesAttempted", "tablesSucceeded", "perTableErrors"}
               \subseteq DOMAIN returned
        /\ returned.tablesAttempted = Len(attempted)
        /\ returned.tablesSucceeded = success_count
        /\ DOMAIN returned.perTableErrors = Failed

\* C11: on every exit path of a migration run every adapter connection that
\* was opened is closed: when the run is over both adapters are disconnected.
C11_AdaptersReleasedAtExit ==
    pc = "done" => source_adapter # "open" /\ target_adapter # "open"

\* ======================================================================
\* SpecExport: SyncWorker._run_export / _run_import up to their connect, and
\* export_database on an orchestrator whose connect() has succeeded

\* DatabaseMigration.__init__: `self.source_adapter = None`,
\* `self.target_adapter = None`
NewDatabaseMigration == [source_adapter |-> "none", target_adapter |-> "none"]

\* `migration.<adapter>.connect()`: an attribute access on None raises
\* AttributeError; an adapter object connects or returns False
AdapterConnect(adapter, ok) ==
    IF adapter = "none" THEN [raised |-> TRUE, ok |-> FALSE, adapter |-> "none"]
    ELSE [raised |-> FALSE, ok |-> ok,
          adapter |-> IF ok THEN "open" ELSE "closed"]

\* the engine of the exported database
ExportDbType == "sqlite"

\* batch_size = 500
batch_size == 500

\* a slice that loses the last row of every batch
Slice_DropsLast(seq, lo, hi) ==
    SubSeq(seq, lo + 1, IF hi - 1 < Len(seq) THEN hi - 1 ELSE Len(seq))

\* data[lo:hi] of Python, lo and hi counted from 0
Slice(seq, lo, hi) ==
    SubSeq(seq, lo + 1, IF hi < Len(seq) THEN hi ELSE Len(seq))

\* `for i in range(0, len(data), batch_size): batch = data[i:i+batch_size]`
\* the batches from offset start on, one INSERT statement each
RECURSIVE BatchesFrom(_, _)
BatchesFrom(rows, start) ==
    IF start >= Len(rows) THEN <<>>
    ELSE <<Slice(rows, start, start + batch_size)>>
         \o BatchesFrom(rows, start + batch_size)

\* export_table_sql: the parts of the text it returns for table t; sf, cf, df
\* are errors in get_table_structure, get_table_columns, get_table_data
ExportTableSql(d, t, include_data, sf, cf, df) ==
    LET ddl == GetTableStructure(d, t, ExportDbType, sf)
        cols == IF include_data THEN GetTableColumns(d, t, cf) ELSE <<>>
        rows == IF cols # <<>> THEN GetTableData(d, t, df) ELSE <<>>
    IN  [table |-> t,
         drop |-> ddl # NoDDL,
         create |-> ddl # NoDDL,
         inserts |-> BatchesFrom(rows, 0)]

\* `if sql:` the joined text is empty exactly when there is no part
SqlIsEmpty(sql) == ~sql.create /\ sql.inserts = <<>>

exp_total_tables == Len(x_tables)
exp_table == x_tables[x_i + 1]

\* run() -> _run_export / _run_import: construct the orchestrator and call
\* connect() on its adapter; an exception reaches run()'s `except Exception`
RunWorker ==
    /\ x_pc = "start"
    /\ x_entry \in {"export", "import"}
    /\ \E file_exists \in BOOLEAN, ok \in BOOLEAN :
         LET migration == NewDatabaseMigration
             r == IF x_entry = "export"
                  THEN AdapterConnect(migration.source_adapter, ok)
                  ELSE AdapterConnect(migration.target_adapter, ok)
         IN  IF x_entry = "import" /\ ~file_exists
             THEN /\ x_finished' = [emitted |-> TRUE, success |-> FALSE,
                                    raised |-> FALSE]
                  /\ x_pc' = "done"
                  /\ UNCHANGED <<x_source_adapter, x_target_adapter>>
             ELSE /\ x_source_adapter' = IF x_entry = "export" THEN r.adapter
                                         ELSE migration.source_adapter
                  /\ x_target_adapter' = IF x_entry = "import" THEN r.adapter
                                         ELSE migration.target_adapter
                  /\ IF r.raised \/ ~r.ok
                     THEN /\ x_finished' = [emitted |-> TRUE, success |-> FALSE,
                                            raised |-> r.raised]
                          /\ x_pc' = "done"
                     ELSE /\ x_pc' = IF x_entry = "export" THEN "export"
                                     ELSE "import"
                          /\ UNCHANGED x_finished
    /\ UNCHANGED <<exp_others, exp_cfg, x_tables, x_i,
                   x_success_count, x_file, x_log, x_progress, x_returned>>

\* a caller of the class: DatabaseMigration(...).connect() before
\* export_database
ApiConnect ==
    /\ x_pc = "start"
    /\ x_entry = "direct"
    /\ \E src_ok \in BOOLEAN, tgt_ok \in BOOLEAN :
         LET r == ConnectOutcome(ExportDbType, ExportDbType, src_ok, tgt_ok)
         IN  /\ x_source_adapter' = r.source
             /\ x_target_adapter' = r.target
             /\ x_pc' = IF r.ok THEN "export" ELSE "done"
    /\ UNCHANGED <<exp_others, exp_cfg, x_tables, x_i,
                   x_success_count, x_file, x_log, x_progress, x_returned,
                   x_finished>>

\* export_database up to the loop: list the tables, filter them, write the
\* header comment
ExportList ==
    /\ x_pc = "export"
    /\ \E fault \in BOOLEAN :
         LET tables == GetTableList(x_db, fault)
         IN  IF tables = <<>>
             THEN /\ x_returned' = [done |-> TRUE, value |-> FALSE]
                  /\ x_pc' = "returned"
                  /\ UNCHANGED x_tables
             ELSE /\ x_tables' = TablesToExport(tables, x_exclude, x_include)
                  /\ x_pc' = "export_loop"
                  /\ UNCHANGED x_returned
    /\ UNCHANGED <<exp_others, exp_cfg, x_source_adapter,
                   x_target_adapter, x_i, x_success_count, x_file, x_log,
                   x_progress, x_finished>>

\* one iteration of `for i, table in enumerate(tables_to_export)`
ExportTable ==
    /\ x_pc = "export_loop"
    /\ x_i < exp_total_tables
    /\ x_progress' = Append(x_progress,
                            [percent |-> ProgressOf(x_i, exp_total_tables),
                             table |-> exp_table])
    /\ \E sf \in BOOLEAN, cf \in BOOLEAN, df \in BOOLEAN :
         LET sql == ExportTableSql(x_db, exp_table, x_include_data, sf, cf, df)
         IN  /\ ~x_include_data => ~cf
             /\ (~x_include_data \/ cf) => ~df
             /\ x_log' = Append(x_log, [table |-> exp_table,
                                        structure_failed |-> sf,
                                        columns_failed |-> cf,
                                        data_failed |-> df,
                                        counted |-> ~SqlIsEmpty(sql)])
             /\ IF SqlIsEmpty(sql)
                THEN UNCHANGED <<x_file, x_success_count>>
                ELSE /\ x_file' = Append(x_file, sql)
                     /\ x_success_count' = x_success_count + 1
    /\ x_i' = x_i + 1
    /\ UNCHANGED <<exp_others, exp_cfg, x_source_adapter,
                   x_target_adapter, x_pc, x_tables, x_returned, x_finished>>

\* export_database after the loop: final progress and the return value
ExportDone ==
    /\ x_pc = "export_loop"
    /\ x_i >= exp_total_tables
    /\ x_progress' = Append(x_progress, [percent |-> 100, table |-> ""])
    /\ x_returned' = [done |-> TRUE, value |-> x_success_count = exp_total_tables]
    /\ x_pc' = "returned"
    /\ UNCHANGED <<exp_others, exp_cfg, x_source_adapter,
                   x_target_adapter, x_tables, x_i, x_success_count, x_file,
                   x_log, x_finished>>

\* the caller closes the orchestrator
ExportClose ==
    /\ x_pc = "returned"
    /\ x_source_adapter' = CloseAdapter(x_source_adapter)
    /\ x_target_adapter' = CloseAdapter(x_target_adapter)
    /\ x_finished' = [emitted |-> TRUE, success |-> x_returned.value,
                      raised |-> FALSE]
    /\ x_pc' = "done"
    /\ UNCHANGED <<exp_others, exp_cfg, x_tables, x_i,
                   x_success_count, x_file, x_log, x_progress, x_returned>>

ExportDatabases == [AllTables -> {Absent, EmptyTable, FullTable}]

ExportInit ==
    /\ x_entry \in {"export", "import", "direct"}
    /\ x_source_adapter = "none" /\ x_target_adapter = "none"
    /\ x_db \in ExportDatabases
    /\ x_exclude \in ExcludeChoices
    /\ x_include \in IncludeChoices
    /\ x_include_data \in BOOLEAN
    /\ x_pc = "start" /\ x_tables = <<>> /\ x_i = 0 /\ x_success_count = 0
    /\ x_file = <<>>
    /\ x_log = <<>>
    /\ x_progress = <<>>
    /\ x_returned = [done |-> FALSE, value |-> FALSE]
    /\ x_finished = [emitted |-> FALSE, success |-> FALSE, raised |-> FALSE]

InitExport ==
    MigIdle /\ FilterIdle /\ ImpIdle /\ ExportInit /\ AdIdle /\ BatIdle /\ RtIdle
    /\ MtIdle
    /\ CvIdle
    /\ CtIdle
    /\ TmIdle
    /\ TsIdle

NextExport ==
    \/ RunWorker
    \/ ApiConnect
    \/ ExportList
    \/ ExportTable
    \/ ExportDone
    \/ ExportClose

SpecExport == InitExport /\ [][NextExport]_vars

\* C12: a DatabaseMigration holds adapter objects from construction on, so
\* the export worker and the import worker can call connect() on the adapter
\* right after constructing it: the call raises nothing, and a worker that
\* fails does so only because connect() returned false.
C12_WorkersOwnAdapters ==
    (x_entry \in {"export", "import"} /\ x_pc # "start") =>
        /\ ~x_finished.raised
        /\ x_entry = "export" => x_source_adapter # "none"
        /\ (x_entry = "import" /\ x_pc # "done") => x_target_adapter # "none"

\* ======================================================================
\* SpecAdapter: one adapter object; connect, close and the data operations
\* invoked in any order (the three adapters have the same structure)

DataOps == {"get_table_list", "get_table_structure", "get_table_columns",
            "get_table_data", "drop_table", "create_table", "insert_data",
            "execute_sql"}

\* a statement given to execute_sql
Statement(kind, t, rows) == [kind |-> kind, table |-> t, rows |-> rows]

\* execute_sql on a connected adapter: cursor.execute, commit; on an
\* exception rollback and (False, message)
ExecuteSql(d, stmt, fault) ==
    LET t == stmt.table
    IN  IF fault THEN [ok |-> FALSE, db |-> Rollback(d, d)]
        ELSE IF stmt.kind = "drop"
        THEN [ok |-> TRUE, db |-> Commit(d, [d EXCEPT ![t] = Absent])]
        ELSE IF stmt.kind = "create"
        THEN IF d[t].exists
             THEN [ok |-> FALSE, db |-> Rollback(d, d)]
             ELSE [ok |-> TRUE, db |-> Commit(d, [d EXCEPT ![t] = EmptyTable])]
        ELSE IF ~d[t].exists
        THEN [ok |-> FALSE, db |-> Rollback(d, d)]
        ELSE [ok |-> TRUE,
              db |-> Commit(d, [d EXCEPT ![t].rows = @ \o stmt.rows])]

\* `self.connection.rollback()` in an except handler: AttributeError when
\* self.connection is None
HandlerRollbackRaises(connection) == connection = "none"

\* a get_* operation: its `try` raises on None.cursor(), the handler logs and
\* returns the failure value
ReadOutcome(connection, value, failure) ==
    [raised |-> FALSE,
     failed |-> (IF connection = "none" THEN failure ELSE value) = failure]

\* drop_table, create_table, insert_data, execute_sql: the handler calls
\* self.connection.rollback() before it returns the failure value
WriteOutcome(connection, d, r) ==
    IF connection = "none"
    THEN [raised |-> HandlerRollbackRaises(connection), failed |-> TRUE, db |-> d]
    ELSE [raised |-> FALSE, failed |-> ~r.ok, db |-> r.db]

Record(op, t, raised, failed) ==
    [op |-> op, table |-> t, raised |-> raised, failed |-> failed,
     connected |-> a_connection = "open"]

\* connect(): a new connection on success, False otherwise
AdapterOpen ==
    /\ a_calls < MaxAdapterCalls
    /\ \E ok \in BOOLEAN :
         /\ a_connection' = IF ok THEN "open" ELSE a_connection
         /\ a_last' = Record("connect", "", FALSE, ~ok)
    /\ a_calls' = a_calls + 1
    /\ UNCHANGED <<ad_others, a_db>>

\* close(): `if self.connection: close; self.connection = None`
AdapterClose ==
    /\ a_calls < MaxAdapterCalls
    /\ a_connection' = "none"
    /\ a_last' = Record("close", "", FALSE, FALSE)
    /\ a_calls' = a_calls + 1
    /\ UNCHANGED <<ad_others, a_db>>

CallGetTableList ==
    /\ a_calls < MaxAdapterCalls
    /\ \E fault \in BOOLEAN :
         LET o == ReadOutcome(a_connection, GetTableList(a_db, fault), <<>>)
         IN  a_last' = Record("get_table_list", "", o.raised, o.failed)
    /\ a_calls' = a_calls + 1
    /\ UNCHANGED <<ad_others, a_connection, a_db>>

CallGetTableStructure ==
    /\ a_calls < MaxAdapterCalls
    /\ \E t \in AllTables, fault \in BOOLEAN :
         LET o == ReadOutcome(a_connection,
                              GetTableStructure(a_db, t, ExportDbType, fault),
                              NoDDL)
         IN  a_last' = Record("get_table_structure", t, o.raised, o.failed)
    /\ a_calls' = a_calls + 1
    /\ UNCHANGED <<ad_others, a_connection, a_db>>

CallGetTableColumns ==
    /\ a_calls < MaxAdapterCalls
    /\ \E t \in AllTables, fault \in BOOLEAN :
         LET o == ReadOutcome(a_connection, GetTableColumns(a_db, t, fault), <<>>)
         IN  a_last' = Record("get_table_columns", t, o.raised, o.failed)
    /\ a_calls' = a_calls + 1
    /\ UNCHANGED <<ad_others, a_connection, a_db>>

CallGetTableData ==
    /\ a_calls < MaxAdapterCalls
    /\ \E t \in AllTables, fault \in BOOLEAN :
         LET o == ReadOutcome(a_connection, GetTableData(a_db, t, fault), <<>>)
         IN  a_last' = Record("get_table_data", t, o.raised, o.failed)
    /\ a_calls' = a_calls + 1
    /\ UNCHANGED <<ad_others, a_connection, a_db>>

CallDropTable ==
    /\ a_calls < MaxAdapterCalls
    /\ \E t \in AllTables, fault \in BOOLEAN :
         LET o == WriteOutcome(a_connection, a_db, DropTable(a_db, t, fault))
         IN  /\ a_last' = Record("drop_table", t, o.raised, o.failed)
             /\ a_db' = o.db
    /\ a_calls' = a_calls + 1
    /\ UNCHANGED <<ad_others, a_connection>>

CallCreateTable ==
    /\ a_calls < MaxAdapterCalls
    /\ \E t \in AllTables, fault \in BOOLEAN :
         LET ddl == [table |-> t, dialect |-> ExportDbType]
             o == WriteOutcome(a_connection, a_db, CreateTable(a_db, ddl, fault))
         IN  /\ a_last' = Record("create_table", t, o.raised, o.failed)
             /\ a_db' = o.db
    /\ a_calls' = a_calls + 1
    /\ UNCHANGED <<ad_others, a_connection>>

\* insert_data with a non-empty batch (an empty one returns True at once)
CallInsertData ==
    /\ a_calls < MaxAdapterCalls
    /\ \E t \in AllTables, k \in {0, MaxRows} :
         LET o == WriteOutcome(a_connection, a_db,
                               InsertData(a_db, t, <<"id", "value">>, FullRows, k))
         IN  /\ a_last' = Record("insert_data", t, o.raised, o.failed)
             /\ a_db' = o.db
    /\ a_calls' = a_calls + 1
    /\ UNCHANGED <<ad_others, a_connection>>

CallExecuteSql ==
    /\ a_calls < MaxAdapterCalls
    /\ \E t \in AllTables, kind \in {"drop", "create", "insert"},
          fault \in BOOLEAN :
         LET o == WriteOutcome(a_connection, a_db,
                               ExecuteSql(a_db, Statement(kind, t, FullRows), fault))
         IN  /\ a_last' = Record("execute_sql", t, o.raised, o.failed)
             /\ a_db' = o.db
    /\ a_calls' = a_calls + 1
    /\ UNCHANGED <<ad_others, a_connection>>

AdapterInit ==
    /\ a_connection = "none"
    /\ a_db \in [AllTables -> {Absent, FullTable}]
    /\ a_last = NoCall
    /\ a_calls = 0

InitAdapter ==
    MigIdle /\ FilterIdle /\ ImpIdle /\ ExpIdle /\ AdapterInit /\ BatIdle /\ RtIdle
    /\ MtIdle
    /\ CvIdle
    /\ CtIdle
    /\ TmIdle
    /\ TsIdle

NextAdapter ==
    \/ AdapterOpen
    \/ AdapterClose
    \/ CallGetTableList
    \/ CallGetTableStructure
    \/ CallGetTableColumns
    \/ CallGetTableData
    \/ CallDropTable
    \/ CallCreateTable
    \/ CallInsertData
    \/ CallExecuteSql

SpecAdapter == InitAdapter /\ [][NextAdapter]_vars

\* C13: every data operation invoked on a disconnected adapter (never
\* connected, or closed) returns its failure value and raises no exception.
C13_DisconnectedFailsCleanly ==
    (a_last.op \in DataOps /\ ~a_last.connected) =>
        ~a_last.raised /\ a_last.failed

\* C14: in migrate_database the progress callback that names a table is
\* invoked after that table's migrate_table call has returned, with a
\* percentage that counts the table as done.
C14_ProgressReportedAfterTable ==
    \A n \in 1..Len(progress) :
        progress[n].table # "" =>
            /\ table_result[progress[n].table] # "none"
            /\ progress[n].percent = ProgressOf(n, total_tables)

\* import_database has run the script to its end (the file was read)
ImportCompleted ==
    /\ imp_result.done
    /\ \A n \in 1..Len(imp_result.errors) : imp_result.errors[n].kind # "read"

\* C15: the percentages passed to the progress callback are integers in
\* 0..100 and never decrease, and the completion of the run is reported by a
\* final callback carrying 100; for import also when the script yields no
\* statement or its last statement fails.
C15_ProgressEndsAt100 ==
    /\ \A n \in 1..Len(imp_progress) : imp_progress[n].percent \in 0..100
    /\ \A m, n \in 1..Len(imp_progress) :
          m < n => imp_progress[m].percent <= imp_progress[n].percent
    /\ ImportCompleted =>
          /\ imp_progress # <<>>
          /\ imp_progress[Len(imp_progress)].percent = 100

\* the entry of the file written for table t, if any
Written(t) == {n \in 1..Len(x_file) : x_file[n].table = t}

\* a table exported without error: its CREATE statement was obtained and
\* written after its DROP TABLE IF EXISTS and, with include_data, its
\* columns and rows were fetched
ExportedWithoutError(e) ==
    /\ ~e.structure_failed
    /\ \E n \in Written(e.table) : x_file[n].drop /\ x_file[n].create
    /\ x_include_data => ~e.columns_failed /\ ~e.data_failed

\* C16: export_database returns true iff every table of the working set was
\* exported without error; a table whose structure or data fetch failed makes
\* the result false.
C16_ExportTrueIffAllExported ==
    (x_returned.done /\ x_progress # <<>>) =>
        /\ Len(x_log) = Len(x_tables)
        /\ \A n \in 1..Len(x_log) : x_log[n].table = x_tables[n]
        /\ x_returned.value =
              (\A n \in 1..Len(x_log) : ExportedWithoutError(x_log[n]))

\* ======================================================================
\* SpecBatch: export_table_sql on a table whose structure, columns and rows
\* were fetched; the batch loop, one iteration at a time

\* generate_insert_sql: '' for no rows, else one INSERT carrying the rows of
\* the batch in order
GenerateInsertSql(t, rows) ==
    IF rows = <<>> THEN <<>> ELSE <<Statement("insert", t, rows)>>

BatchInit ==
    /\ b_data \in {[r \in 1..n |-> r] : n \in 0..MaxExportRows}
    /\ b_include_data \in BOOLEAN
    /\ b_i = 0
    /\ b_inserts = <<>>
    /\ b_pc = "start"

\* `if include_data: columns = ...; data = ...; if data:`
BatchEnter ==
    /\ b_pc = "start"
    /\ b_pc' = IF b_include_data /\ b_data # <<>> THEN "loop" ELSE "done"
    /\ UNCHANGED <<bat_others, b_data, b_include_data, b_i, b_inserts>>

\* one iteration of `for i in range(0, len(data), batch_size)`
BatchIter ==
    /\ b_pc = "loop"
    /\ b_i < Len(b_data)
    /\ LET batch == Slice(b_data, b_i, b_i + batch_size)
       IN  b_inserts' = b_inserts \o GenerateInsertSql("A", batch)
    /\ b_i' = b_i + batch_size
    /\ UNCHANGED <<bat_others, b_data, b_include_data, b_pc>>

\* the end of the range
BatchExit ==
    /\ b_pc = "loop"
    /\ b_i >= Len(b_data)
    /\ b_pc' = "done"
    /\ UNCHANGED <<bat_others, b_data, b_include_data, b_i, b_inserts>>

InitBatch ==
    MigIdle /\ FilterIdle /\ ImpIdle /\ ExpIdle /\ AdIdle /\ BatchInit /\ RtIdle
    /\ MtIdle
    /\ CvIdle
    /\ CtIdle
    /\ TmIdle
    /\ TsIdle

NextBatch ==
    \/ BatchEnter
    \/ BatchIter
    \/ BatchExit

SpecBatch == InitBatch /\ [][NextBatch]_vars

\* the rows of a sequence of INSERT statements, in order
RECURSIVE RowsOf(_)
RowsOf(inserts) ==
    IF inserts = <<>> THEN <<>> ELSE Head(inserts).rows \o RowsOf(Tail(inserts))

\* C17: for n rows and include_data set export_table_sql emits ceil(n/500)
\* INSERT statements, each of at most 500 rows and all but the last of exactly
\* 500; their rows in order are the fetched rows, each once, in fetch order;
\* with n = 0 or without include_data there is no INSERT.
C17_ExportBatches ==
    b_pc = "done" =>
        LET n == Len(b_data)
        IN  IF ~b_include_data \/ n = 0 THEN b_inserts = <<>>
            ELSE /\ Len(b_inserts) = (n + 499) \div 500
                 /\ \A k \in 1..Len(b_inserts) :
                       /\ Len(b_inserts[k].rows) \in 1..500
                       /\ k < Len(b_inserts) => Len(b_inserts[k].rows) = 500
                 /\ RowsOf(b_inserts) = b_data
                 /\ [k \in 1..Len(b_inserts) |-> b_inserts[k].rows]
                       = BatchesFrom(b_data, 0)

C17_Witness ==
    /\ b_pc = "done" /\ b_include_data
    /\ Len(b_data) = 1001
    /\ Len(b_inserts) = 3
    /\ Len(b_inserts[3].rows) = 1

\* ======================================================================
\* SpecRoundTrip: export_database with data into a file, then
\* import_database of that file into an empty database of the same engine.
\* A text is a sequence of characters; the fixed head of a statement
\* ("DROP TABLE IF EXISTS A", the CREATE TABLE text, "INSERT INTO A (v)
\* VALUES") is one character of the text, which no test of the scanner
\* looks into.

\* the characters of a string value of a row
ValueChars == {"a", ";", "\n", "-", "#", "'"}
Values(n) == UNION {[1..m -> ValueChars] : m \in 0..n}

DropHead == [t \in AllTables |->
                IF t = "A" THEN "DROP TABLE IF EXISTS A"
                ELSE "DROP TABLE IF EXISTS B"]
CreateHead == [t \in AllTables |->
                IF t = "A" THEN "CREATE TABLE A (v TEXT)"
                ELSE "CREATE TABLE B (v TEXT)"]
InsertHead == [t \in AllTables |->
                IF t = "A" THEN "INSERT INTO A (v) VALUES"
                ELSE "INSERT INTO B (v) VALUES"]

\* a comment line of the export: "-- ..."
CommentLine == <<"-", "-", " ", "c">>

\* str.replace("'", "''")
RECURSIVE EscapeQuotes(_)
EscapeQuotes(v) ==
    IF v = <<>> THEN <<>>
    ELSE (IF Head(v) = "'" THEN <<"'", "'">> ELSE <<Head(v)>>)
         \o EscapeQuotes(Tail(v))

\* format_value_for_sql on a str: the escaped text between single quotes
FormatValueForSql(v) == <<"'">> \o EscapeQuotes(v) \o <<"'">>

\* sep.join(parts)
RECURSIVE JoinWith(_, _)
JoinWith(parts, sep) ==
    IF parts = <<>> THEN <<>>
    ELSE IF Len(parts) = 1 THEN parts[1]
    ELSE parts[1] \o sep \o JoinWith(Tail(parts), sep)

\* generate_insert_sql: the head, a newline, the rows "(v)" joined by ",\n",
\* and ';'
GenerateInsertText(t, rows) ==
    IF rows = <<>> THEN <<>>
    ELSE <<InsertHead[t], "\n">>
         \o JoinWith([k \in 1..Len(rows) |->
                        <<"(">> \o FormatValueForSql(rows[k]) \o <<")">>],
                     <<",", "\n">>)
         \o <<";">>

\* the statements export_table_sql writes for table t, with their texts
TableStatements(d, t) ==
    LET ddl == GetTableStructure(d, t, ExportDbType, FALSE)
        cols == GetTableColumns(d, t, FALSE)
        rows == IF cols # <<>> THEN GetTableData(d, t, FALSE) ELSE <<>>
        batches == BatchesFrom(rows, 0)
    IN  (IF ddl # NoDDL
         THEN << [stmt |-> Statement("drop", t, <<>>),
                  text |-> <<DropHead[t], ";">>],
                 [stmt |-> Statement("create", t, <<>>),
                  text |-> <<CreateHead[t], ";">>] >>
         ELSE <<>>)
        \o [k \in 1..Len(batches) |->
              [stmt |-> Statement("insert", t, batches[k]),
               text |-> GenerateInsertText(t, batches[k])]]

\* export_table_sql: '\n'.join(sql_parts)
ExportTableText(d, t) ==
    LET w == TableStatements(d, t)
        structure == IF w # <<>> /\ w[1].stmt.kind = "drop"
                     THEN <<CommentLine, w[1].text, w[2].text \o <<"\n">>>>
                     ELSE <<>>
        inserts == SelectSeq(w, LAMBDA e : e.stmt.kind = "insert")
        RECURSIVE Parts(_)
        Parts(ins) == IF ins = <<>> THEN <<>>
                      ELSE <<Head(ins).text, <<>>>> \o Parts(Tail(ins))
    IN  JoinWith(structure
                 \o (IF inserts # <<>> THEN <<CommentLine>> \o Parts(inserts)
                     ELSE <<>>),
                 <<"\n">>)

\* the four comment lines export_database writes first
ExportHeader ==
    CommentLine \o <<"\n">> \o CommentLine \o <<"\n">> \o CommentLine
    \o <<"\n">> \o CommentLine \o <<"\n", "\n">>

\* the file export_database writes for the tables of the list
RECURSIVE ExportFileFrom(_, _)
ExportFileFrom(d, tables) ==
    IF tables = <<>> THEN <<>>
    ELSE (LET sql == ExportTableText(d, Head(tables))
          IN  IF sql # <<>> THEN sql \o <<"\n", "\n">> ELSE <<>>)
         \o ExportFileFrom(d, Tail(tables))

RECURSIVE WrittenFrom(_, _)
WrittenFrom(d, tables) ==
    IF tables = <<>> THEN <<>>
    ELSE TableStatements(d, Head(tables)) \o WrittenFrom(d, Tail(tables))

\* str.splitlines() for the line break "\n"
RECURSIVE SplitLines(_)
SplitLines(text) ==
    IF text = <<>> THEN <<>>
    ELSE IF \A n \in 1..Len(text) : text[n] # "\n" THEN <<text>>
    ELSE LET p == CHOOSE n \in 1..Len(text) :
                     /\ text[n] = "\n"
                     /\ \A m \in 1..(n - 1) : text[m] # "\n"
         IN  <<SubSeq(text, 1, p - 1)>>
             \o SplitLines(SubSeq(text, p + 1, Len(text)))

\* ---- what the target engine makes of a statement text
SqlWhitespace == {" ", "\t", "\n"}

At(text, pos) == IF pos \in 1..Len(text) THEN text[pos] ELSE ""

RECURSIVE SkipWs(_, _)
SkipWs(text, pos) ==
    IF At(text, pos) \in SqlWhitespace THEN SkipWs(text, pos + 1) ELSE pos

SyntaxError == [ok |-> FALSE, stmt |-> Statement("", "", <<>>)]

\* a string literal from the character after its opening quote: '' is one
\* quote, a single ' ends it
RECURSIVE ParseLiteral(_, _, _)
ParseLiteral(text, pos, acc) ==
    IF pos > Len(text) THEN [ok |-> FALSE, value |-> acc, next |-> pos]
    ELSE IF text[pos] = "'"
    THEN IF At(text, pos + 1) = "'"
         THEN ParseLiteral(text, pos + 2, Append(acc, "'"))
         ELSE [ok |-> TRUE, value |-> acc, next |-> pos + 1]
    ELSE ParseLiteral(text, pos + 1, Append(acc, text[pos]))

\* the rows "(literal)" separated by ',' up to the final ';'
RECURSIVE ParseRows(_, _, _, _)
ParseRows(text, pos, t, rows) ==
    LET p1 == SkipWs(text, pos)
        lit == ParseLiteral(text, p1 + 2, <<>>)
        p2 == SkipWs(text, lit.next + 1)
    IN  IF At(text, p1) # "(" \/ At(text, p1 + 1) # "'" THEN SyntaxError
        ELSE IF ~lit.ok \/ At(text, lit.next) # ")" THEN SyntaxError
        ELSE IF At(text, p2) = ","
        THEN ParseRows(text, p2 + 1, t, Append(rows, lit.value))
        ELSE IF At(text, p2) = ";" /\ SkipWs(text, p2 + 1) > Len(text)
        THEN [ok |-> TRUE, stmt |-> Statement("insert", t, Append(rows, lit.value))]
        ELSE SyntaxError

\* the statement a text is, or a syntax error
ParseStatement(text) ==
    LET p == SkipWs(text, 1)
        c == At(text, p)
        q == SkipWs(text, p + 1)
        ends == At(text, q) = ";" /\ SkipWs(text, q + 1) > Len(text)
    IN  IF \E t \in AllTables : c = DropHead[t]
        THEN IF ends
             THEN [ok |-> TRUE,
                   stmt |-> Statement("drop",
                               CHOOSE t \in AllTables : c = DropHead[t], <<>>)]
             ELSE SyntaxError
        ELSE IF \E t \in AllTables : c = CreateHead[t]
        THEN IF ends
             THEN [ok |-> TRUE,
                   stmt |-> Statement("create",
                               CHOOSE t \in AllTables : c = CreateHead[t], <<>>)]
             ELSE SyntaxError
        ELSE IF \E t \in AllTables : c = InsertHead[t]
        THEN ParseRows(text, p + 1,
                       CHOOSE t \in AllTables : c = InsertHead[t], <<>>)
        ELSE SyntaxError

\* execute_sql on a statement text: (False, message) on a syntax error
ExecuteText(d, text) ==
    LET parsed == ParseStatement(text)
    IN  IF parsed.ok THEN ExecuteSql(d, parsed.stmt, FALSE)
        ELSE [ok |-> FALSE, db |-> Rollback(d, d)]

\* ---- the run
\* tables A and B hold one text column; the other tables do not exist
RoundTripSources ==
    {[t \in AllTables |->
        IF t = "A" THEN [exists |-> TRUE, rows |-> a]
        ELSE IF t = "B" THEN b ELSE Absent] :
       a \in {<<>>} \cup {<<v>> : v \in Values(MaxValueLen)},
       b \in {Absent, [exists |-> TRUE, rows |-> << <<"a">>, <<"a", "a">> >>]}}

RoundTripInit ==
    /\ rt_src \in RoundTripSources
    /\ rt_text = <<>> /\ rt_written = <<>> /\ rt_statements = <<>>
    /\ rt_tgt = [t \in AllTables |-> Absent]
    /\ rt_i = 0 /\ rt_errors = <<>>
    /\ rt_pc = "export"
    /\ rt_result = [done |-> FALSE, success |-> FALSE]

\* export_database(output_path, include_data=True) on the source
RtExport ==
    /\ rt_pc = "export"
    /\ LET tables == TablesToExport(GetTableList(rt_src, FALSE), <<>>, <<>>)
       IN  /\ rt_text' = ExportHeader \o ExportFileFrom(rt_src, tables)
           /\ rt_written' = WrittenFrom(rt_src, tables)
    /\ rt_pc' = "import"
    /\ UNCHANGED <<rt_others, rt_src, rt_statements, rt_tgt, rt_i, rt_errors,
                   rt_result>>

\* import_database: read the file and split it into statements
RtScan ==
    /\ rt_pc = "import"
    /\ rt_statements' = SplitStatements(SplitLines(rt_text))
    /\ rt_pc' = "exec"
    /\ UNCHANGED <<rt_others, rt_src, rt_text, rt_written, rt_tgt, rt_i,
                   rt_errors, rt_result>>

\* one iteration of the execution loop on the target
RtExec ==
    /\ rt_pc = "exec"
    /\ rt_i < Len(rt_statements)
    /\ LET statement == rt_statements[rt_i + 1]
           r == ExecuteText(rt_tgt, statement)
       IN  IF Strip(statement) = <<>>
           THEN UNCHANGED <<rt_tgt, rt_errors>>
           ELSE /\ rt_tgt' = r.db
                /\ rt_errors' = IF r.ok THEN rt_errors
                                ELSE RecordOutcome(rt_errors, rt_i + 1, "false")
    /\ rt_i' = rt_i + 1
    /\ UNCHANGED <<rt_others, rt_src, rt_text, rt_written, rt_statements,
                   rt_pc, rt_result>>

\* the end of the loop: import_database returns
RtReturn ==
    /\ rt_pc = "exec"
    /\ rt_i >= Len(rt_statements)
    /\ rt_result' = [done |-> TRUE, success |-> ScriptResult(rt_errors).success]
    /\ rt_pc' = "done"
    /\ UNCHANGED <<rt_others, rt_src, rt_text, rt_written, rt_statements,
                   rt_tgt, rt_i, rt_errors>>

InitRoundTrip ==
    MigIdle /\ FilterIdle /\ ImpIdle /\ ExpIdle /\ AdIdle /\ BatIdle
    /\ RoundTripInit /\ MtIdle
    /\ CvIdle
    /\ CtIdle
    /\ TmIdle
    /\ TsIdle

NextRoundTrip ==
    \/ RtExport
    \/ RtScan
    \/ RtExec
    \/ RtReturn

SpecRoundTrip == InitRoundTrip /\ [][NextRoundTrip]_vars

\* C18: export with data, then import of the file into an empty database of
\* the same engine, returns success and leaves the same tables with the same
\* rows; the splitter cuts the file into exactly the DROP, CREATE and INSERT
\* statements the exporter wrote, whatever the string values contain.
C18_RoundTrip ==
    rt_result.done =>
        /\ rt_result.success
        /\ rt_tgt = rt_src
        /\ Len(rt_statements) = Len(rt_written)
        /\ \A k \in 1..Len(rt_statements) :
              ParseStatement(rt_statements[k]) =
                  [ok |-> TRUE, stmt |-> rt_written[k].stmt]

\* ======================================================================
\* DataTypeMapper.map_type (type_mapping.py:172-213)
\* A type token is a sequence of symbols: a word in some letter case, a
\* blank, "(", ")", "," or a number. A table maps the upper-case spelling of
\* a base type, itself a sequence of symbols, to the target spelling.

MYSQL_TO_SQLITE ==
    { <<<<"TINYINT">>, <<"INTEGER">>>>,
      <<<<"SMALLINT">>, <<"INTEGER">>>>,
      <<<<"MEDIUMINT">>, <<"INTEGER">>>>,
      <<<<"INT">>, <<"INTEGER">>>>,
      <<<<"INTEGER">>, <<"INTEGER">>>>,
      <<<<"BIGINT">>, <<"INTEGER">>>>,
      <<<<"FLOAT">>, <<"REAL">>>>,
      <<<<"DOUBLE">>, <<"REAL">>>>,
      <<<<"DECIMAL">>, <<"REAL">>>>,
      <<<<"NUMERIC">>, <<"REAL">>>>,
      <<<<"CHAR">>, <<"TEXT">>>>,
      <<<<"VARCHAR">>, <<"TEXT">>>>,
      <<<<"TINYTEXT">>, <<"TEXT">>>>,
      <<<<"TEXT">>, <<"TEXT">>>>,
      <<<<"MEDIUMTEXT">>, <<"TEXT">>>>,
      <<<<"LONGTEXT">>, <<"TEXT">>>>,
      <<<<"TINYBLOB">>, <<"BLOB">>>>,
      <<<<"BLOB">>, <<"BLOB">>>>,
      <<<<"MEDIUMBLOB">>, <<"BLOB">>>>,
      <<<<"LONGBLOB">>, <<"BLOB">>>>,
      <<<<"BINARY">>, <<"BLOB">>>>,
      <<<<"VARBINARY">>, <<"BLOB">>>>,
      <<<<"DATE">>, <<"TEXT">>>>,
      <<<<"TIME">>, <<"TEXT">>>>,
      <<<<"DATETIME">>, <<"TEXT">>>>,
      <<<<"TIMESTAMP">>, <<"TEXT">>>>,
      <<<<"YEAR">>, <<"INTEGER">>>>,
      <<<<"BOOL">>, <<"INTEGER">>>>,
      <<<<"BOOLEAN">>, <<"INTEGER">>>>,
      <<<<"ENUM">>, <<"TEXT">>>>,
      <<<<"SET">>, <<"TEXT">>>>,
      <<<<"JSON">>, <<"TEXT">>>> }

MYSQL_TO_POSTGRESQL ==
    { <<<<"TINYINT">>, <<"SMALLINT">>>>,
      <<<<"SMALLINT">>, <<"SMALLINT">>>>,
      <<<<"MEDIUMINT">>, <<"INTEGER">>>>,
      <<<<"INT">>, <<"INTEGER">>>>,
      <<<<"INTEGER">>, <<"INTEGER">>>>,
      <<<<"BIGINT">>, <<"BIGINT">>>>,
      <<<<"FLOAT">>, <<"REAL">>>>,
      <<<<"DOUBLE">>, <<"DOUBLE", " ", "PRECISION">>>>,
      <<<<"DECIMAL">>, <<"NUMERIC">>>>,
      <<<<"NUMERIC">>, <<"NUMERIC">>>>,
      <<<<"CHAR">>, <<"CHARACTER">>>>,
      <<<<"VARCHAR">>, <<"VARCHAR">>>>,
      <<<<"TINYTEXT">>, <<"TEXT">>>>,
      <<<<"TEXT">>, <<"TEXT">>>>,
      <<<<"MEDIUMTEXT">>, <<"TEXT">>>>,
      <<<<"LONGTEXT">>, <<"TEXT">>>>,
      <<<<"TINYBLOB">>, <<"BYTEA">>>>,
      <<<<"BLOB">>, <<"BYTEA">>>>,
      <<<<"MEDIUMBLOB">>, <<"BYTEA">>>>,
      <<<<"LONGBLOB">>, <<"BYTEA">>>>,
      <<<<"BINARY">>, <<"BYTEA">>>>,
      <<<<"VARBINARY">>, <<"BYTEA">>>>,
      <<<<"DATE">>, <<"DATE">>>>,
      <<<<"TIME">>, <<"TIME">>>>,
      <<<<"DATETIME">>, <<"TIMESTAMP">>>>,
      <<<<"TIMESTAMP">>, <<"TIMESTAMP">>>>,
      <<<<"YEAR">>, <<"INTEGER">>>>,
      <<<<"BOOL">>, <<"BOOLEAN">>>>,
      <<<<"BOOLEAN">>, <<"BOOLEAN">>>>,
      <<<<"ENUM">>, <<"VARCHAR">>>>,
      <<<<"SET">>, <<"TEXT">>>>,
      <<<<"JSON">>, <<"JSONB">>>> }

SQLITE_TO_MYSQL ==
    { <<<<"INTEGER">>, <<"INT">>>>,
      <<<<"REAL">>, <<"DOUBLE">>>>,
      <<<<"TEXT">>, <<"TEXT">>>>,
      <<<<"BLOB">>, <<"BLOB">>>>,
      <<<<"NUMERIC">>, <<"DECIMAL">>>> }

SQLITE_TO_POSTGRESQL ==
    { <<<<"INTEGER">>, <<"INTEGER">>>>,
      <<<<"REAL">>, <<"DOUBLE", " ", "PRECISION">>>>,
      <<<<"TEXT">>, <<"TEXT">>>>,
      <<<<"BLOB">>, <<"BYTEA">>>>,
      <<<<"NUMERIC">>, <<"NUMERIC">>>> }

POSTGRESQL_TO_MYSQL ==
    { <<<<"SMALLINT">>, <<"SMALLINT">>>>,
      <<<<"INTEGER">>, <<"INT">>>>,
      <<<<"BIGINT">>, <<"BIGINT">>>>,
      <<<<"DECIMAL">>, <<"DECIMAL">>>>,
      <<<<"NUMERIC">>, <<"DECIMAL">>>>,
      <<<<"REAL">>, <<"DOUBLE">>>>,
      <<<<"DOUBLE", " ", "PRECISION">>, <<"DOUBLE">>>>,
      <<<<"CHARACTER">>, <<"CHAR">>>>,
      <<<<"VARCHAR">>, <<"VARCHAR">>>>,
      <<<<"TEXT">>, <<"TEXT">>>>,
      <<<<"BYTEA">>, <<"BLOB">>>>,
      <<<<"DATE">>, <<"DATE">>>>,
      <<<<"TIME">>, <<"TIME">>>>,
      <<<<"TIMESTAMP">>, <<"DATETIME">>>>,
      <<<<"BOOLEAN">>, <<"TINYINT">>>>,
      <<<<"JSONB">>, <<"JSON">>>>,
      <<<<"JSON">>, <<"JSON">>>> }

POSTGRESQL_TO_SQLITE ==
    { <<<<"SMALLINT">>, <<"INTEGER">>>>,
      <<<<"INTEGER">>, <<"INTEGER">>>>,
      <<<<"BIGINT">>, <<"INTEGER">>>>,
      <<<<"DECIMAL">>, <<"REAL">>>>,
      <<<<"NUMERIC">>, <<"REAL">>>>,
      <<<<"REAL">>, <<"REAL">>>>,
      <<<<"DOUBLE", " ", "PRECISION">>, <<"REAL">>>>,
      <<<<"CHARACTER">>, <<"TEXT">>>>,
      <<<<"VARCHAR">>, <<"TEXT">>>>,
      <<<<"TEXT">>, <<"TEXT">>>>,
      <<<<"BYTEA">>, <<"BLOB">>>>,
      <<<<"DATE">>, <<"TEXT">>>>,
      <<<<"TIME">>, <<"TEXT">>>>,
      <<<<"TIMESTAMP">>, <<"TEXT">>>>,
      <<<<"BOOLEAN">>, <<"INTEGER">>>>,
      <<<<"JSONB">>, <<"TEXT">>>>,
      <<<<"JSON">>, <<"TEXT">>>> }

\* str.upper() of the words the tokens below are spelt with
UpperWord(w) ==
    CASE w = "int" -> "INT"
      [] w = "varchar" -> "VARCHAR"
      [] w = "VarChar" -> "VARCHAR"
      [] w = "timestamp" -> "TIMESTAMP"
      [] w = "double" -> "DOUBLE"
      [] w = "precision" -> "PRECISION"
      [] w = "unsigned" -> "UNSIGNED"
      [] w = "mysql" -> "MYSQL"
      [] w = "MySQL" -> "MYSQL"
      [] w = "sqlite" -> "SQLITE"
      [] w = "postgresql" -> "POSTGRESQL"
      [] w = "oracle" -> "ORACLE"
      [] w = "date" -> "DATE"
      [] w = "text" -> "TEXT"
      [] w = "year" -> "YEAR"
      [] w = "real" -> "REAL"
      [] w = "id" -> "ID"
      [] w = "value" -> "VALUE"
      [] w = "created" -> "CREATED"
      [] w = "x" -> "X"
      [] w = "t" -> "T"
      [] w = "InnoDB" -> "INNODB"
      [] w = "utf" -> "UTF"
      [] w = "bin" -> "BIN"
      [] OTHER -> w

TypeUpper(str) == [n \in 1..Len(str) |-> UpperWord(str[n])]

\* c in str, str.index(c) counted from 1
Contains(str, c) == \E n \in 1..Len(str) : str[n] = c

IndexOf(str, c) ==
    CHOOSE n \in 1..Len(str) : str[n] = c /\ \A m \in 1..(n - 1) : str[m] # c

\* str.split(c)[0]
SplitHead(str, c) ==
    IF Contains(str, c) THEN SubSeq(str, 1, IndexOf(str, c) - 1) ELSE str

\* getattr(cls, f"{source_db.upper()}_TO_{target_db.upper()}", {})
GetMapping(source_db, target_db) ==
    LET mapping_name == <<UpperWord(source_db), UpperWord(target_db)>>
    IN  CASE mapping_name = <<"MYSQL", "SQLITE">> -> MYSQL_TO_SQLITE
          [] mapping_name = <<"MYSQL", "POSTGRESQL">> -> MYSQL_TO_POSTGRESQL
          [] mapping_name = <<"SQLITE", "MYSQL">> -> SQLITE_TO_MYSQL
          [] mapping_name = <<"SQLITE", "POSTGRESQL">> -> SQLITE_TO_POSTGRESQL
          [] mapping_name = <<"POSTGRESQL", "MYSQL">> -> POSTGRESQL_TO_MYSQL
          [] mapping_name = <<"POSTGRESQL", "SQLITE">> -> POSTGRESQL_TO_SQLITE
          [] OTHER -> {}

\* mapping.get(key): the set of values found, empty for None
MappingGet(mapping, key) == {p[2] : p \in {q \in mapping : q[1] = key}}

\* a list that lets TEXT keep a length
NoLengthTypes_KeepsTextLength ==
    { <<"BLOB">>, <<"BYTEA">>, <<"DATE">>, <<"TIME">>, <<"DATETIME">>,
      <<"TIMESTAMP">>, <<"BOOLEAN">>, <<"JSON">>, <<"JSONB">> }

\* target types that are written without a length (line 209)
NoLengthTypes ==
    { <<"TEXT">>, <<"BLOB">>, <<"BYTEA">>, <<"DATE">>, <<"TIME">>,
      <<"DATETIME">>, <<"TIMESTAMP">>, <<"BOOLEAN">>, <<"JSON">>, <<"JSONB">> }

BaseType(source_type) == Strip(SplitHead(TypeUpper(source_type), "("))

\* a mapper that hands back the normalised base type, not the token, when
\* the table has no entry
MapType_ReturnsBaseType(source_type, source_db, target_db) ==
    LET base_type == BaseType(source_type)
        mapping == GetMapping(source_db, target_db)
        found == MappingGet(mapping, base_type)
    IN  IF source_db = target_db THEN source_type
        ELSE IF found = {} THEN base_type
        ELSE LET target_type == CHOOSE v \in found : TRUE
                 length_part == SubSeq(source_type, IndexOf(source_type, "("),
                                       Len(source_type))
             IN  IF Contains(source_type, "(") /\ target_type \notin NoLengthTypes
                 THEN target_type \o length_part
                 ELSE target_type

MapType(source_type, source_db, target_db) ==
    LET base_type == BaseType(source_type)
        mapping == GetMapping(source_db, target_db)
        found == MappingGet(mapping, base_type)
    IN  IF source_db = target_db THEN source_type
        ELSE IF found = {} THEN source_type
        ELSE LET target_type == CHOOSE v \in found : TRUE
                 length_part == SubSeq(source_type, IndexOf(source_type, "("),
                                       Len(source_type))
             IN  IF Contains(source_type, "(") /\ target_type \notin NoLengthTypes
                 THEN target_type \o length_part
                 ELSE target_type

\* the engine names of a call: the three engines, one spelt in mixed case,
\* and a name that has no table
EngineNames == {"mysql", "sqlite", "postgresql", "MySQL", "oracle"}

\* the tokens of a call: a base spelling, then nothing, a blank, a length, a
\* precision and scale, a length after a blank, or a length and a modifier
BaseSpellings ==
    { <<>>, <<"INT">>, <<"int">>, <<"VARCHAR">>, <<"VarChar">>, <<"CHAR">>,
      <<"CHARACTER">>, <<"TEXT">>, <<"DECIMAL">>, <<"NUMERIC">>, <<"REAL">>,
      <<"DOUBLE", " ", "PRECISION">>, <<"double", " ", "precision">>,
      <<"TIMESTAMP">>, <<"timestamp">>, <<"DATETIME">>, <<"TIME">>,
      <<"BOOLEAN">>, <<"BLOB">>, <<"GEOMETRY">> }

LengthSpellings ==
    { <<>>, <<" ">>, <<"(", "50", ")">>, <<"(", "10", ",", "2", ")">>,
      <<" ", "(", "6", ")">>, <<"(", "11", ")", " ", "unsigned">> }

TypeTokens == {b \o l : b \in BaseSpellings, l \in LengthSpellings}

MapTypeInit ==
    /\ mt_source_type \in TypeTokens
    /\ mt_source_db \in EngineNames
    /\ mt_target_db \in EngineNames
    /\ mt_result = <<>>
    /\ mt_pc = "ready"

\* one call; no statement of map_type can raise on a string token
CallMapType ==
    /\ mt_pc = "ready"
    /\ mt_result' = MapType(mt_source_type, mt_source_db, mt_target_db)
    /\ mt_pc' = "returned"
    /\ UNCHANGED <<mt_others, mt_source_type, mt_source_db, mt_target_db>>

InitMapType ==
    MigIdle /\ FilterIdle /\ ImpIdle /\ ExpIdle /\ AdIdle /\ BatIdle /\ RtIdle
    /\ MapTypeInit
    /\ CvIdle
    /\ CtIdle
    /\ TmIdle
    /\ TsIdle

NextMapType ==
    \/ CallMapType

SpecMapType == InitMapType /\ [][NextMapType]_vars

\* the table of the call's pair, the mapped base type (a set, empty when the
\* base type is not in the table) and the token from its first "(" on
PairTable == GetMapping(mt_source_db, mt_target_db)

MappedBase == MappingGet(PairTable, BaseType(mt_source_type))

Sized == Contains(mt_source_type, "(")

LengthSuffix ==
    SubSeq(mt_source_type, IndexOf(mt_source_type, "("), Len(mt_source_type))

StatedNoLengthTypes ==
    { <<"TEXT">>, <<"BLOB">>, <<"BYTEA">>, <<"DATE">>, <<"TIME">>,
      <<"TIMESTAMP">>, <<"BOOLEAN">>, <<"JSON">>, <<"JSONB">> }

LengthRule(no_length) ==
    (mt_pc = "returned" /\ mt_source_db # mt_target_db /\ MappedBase # {}) =>
        \A m \in MappedBase :
            mt_result = IF Sized /\ m \notin no_length
                        THEN m \o LengthSuffix
                        ELSE m

Digits == {"2", "5", "6", "8", "10", "11", "50", "100"}

NonLetters == Digits \cup {" ", "(", ")", ",", "_", "=", "bq", "dq"}

\* [A-Z] under re.IGNORECASE, and \w
IsLetters(c) == c \notin NonLetters

IsWordChar(c) == IsLetters(c) \/ c \in Digits \/ c = "_"

\* str.replace(old, new) of one character by another
ReplaceChar(str, old, new) ==
    [n \in 1..Len(str) |-> IF str[n] = old THEN new ELSE str[n]]

\* str.replace of a word by a sequence of symbols
RECURSIVE ReplaceWord(_, _, _)
ReplaceWord(str, old, new) ==
    IF str = <<>> THEN <<>>
    ELSE (IF Head(str) = old THEN new ELSE <<Head(str)>>)
         \o ReplaceWord(Tail(str), old, new)

\* type_pattern = r'\b([A-Z]+)(?:\([^)]*\))?' : a match starts at a run of
\* letters that follows no word character, and takes the parenthesis that
\* follows at once up to the first ")"
MatchesAt(str, n) == IsLetters(str[n]) /\ (n = 1 \/ ~IsWordChar(str[n - 1]))

MatchEnd(str, n) ==
    IF n < Len(str) /\ str[n + 1] = "("
       /\ \E j \in (n + 2)..Len(str) : str[j] = ")"
    THEN CHOOSE j \in (n + 2)..Len(str) :
             str[j] = ")" /\ \A k \in (n + 2)..(j - 1) : str[k] # ")"
    ELSE n

\* replace_type(match): group(0) is source_type, group(1) is base_type
ReplaceType(source_type, base_type, source_db, target_db) ==
    LET mapped_type == MapType(source_type, source_db, target_db)
    IN  IF Contains(source_type, "(") /\ mapped_type = <<base_type>>
        THEN source_type
        ELSE mapped_type

\* re.sub(type_pattern, replace_type, result, flags=re.IGNORECASE): the new
\* text and, in order, every match with what replaced it
RECURSIVE SubTypesFrom(_, _, _, _, _)
SubTypesFrom(str, n, source_db, target_db, acc) ==
    IF n > Len(str) THEN acc
    ELSE IF MatchesAt(str, n)
    THEN LET e == MatchEnd(str, n)
             source_type == SubSeq(str, n, e)
             r == ReplaceType(source_type, str[n], source_db, target_db)
         IN  SubTypesFrom(str, e + 1, source_db, target_db,
                 [text |-> acc.text \o r,
                  matches |-> Append(acc.matches,
                                 [token |-> source_type, replacement |-> r])])
    ELSE SubTypesFrom(str, n + 1, source_db, target_db,
             [acc EXCEPT !.text = Append(@, str[n])])

SubTypes(str, source_db, target_db) ==
    SubTypesFrom(str, 1, source_db, target_db, [text |-> <<>>, matches |-> <<>>])

\* _handle_syntax_differences: the branches that call re.sub raise
\* NameError; SQLite to MySQL rewrites AUTOINCREMENT with str.replace
HandleSyntaxDifferences(sql, source_db, target_db) ==
    IF HandleSyntaxRaises(source_db, target_db)
    THEN [raised |-> TRUE, sql |-> sql]
    ELSE IF source_db = "sqlite" /\ target_db = "mysql"
    THEN [raised |-> FALSE,
          sql |-> ReplaceWord(sql, "AUTOINCREMENT", <<"AUTO", "_", "INCREMENT">>)]
    ELSE [raised |-> FALSE, sql |-> sql]

\* the statements of a call: one table t with one column, the identifiers
\* quoted, with or without MySQL's table options
ColumnNames ==
    { <<"id">>, <<"date">>, <<"text">>, <<"year">>, <<"int", "_", "value">>,
      <<"date", "_", "created">>, <<"real", "_", "value">>,
      <<"x", "_", "int">> }

ColumnTypes ==
    { <<"INT">>, <<"int", "(", "11", ")">>, <<"INTEGER">>, <<"TEXT">>,
      <<"TEXT", "(", "100", ")">>, <<"text", "(", "100", ")">>,
      <<"VARCHAR", "(", "50", ")">>, <<"REAL">>, <<"BLOB", "(", "10", ")">>,
      <<"TIMESTAMP", "(", "6", ")">>, <<"SERIAL">>,
      <<"INTEGER", " ", "PRIMARY", " ", "KEY", " ", "AUTOINCREMENT">> }

TableOptions ==
    <<" ", "ENGINE", "=", "InnoDB", " ", "AUTO", "_", "INCREMENT", "=", "5",
      " ", "DEFAULT", " ", "CHARSET", "=", "utf", "8",
      " ", "COLLATE", "=", "utf", "8", "_", "bin">>

CreateTableHead(q, name) ==
    <<"CREATE", " ", "TABLE", " ", q, "t", q, " ", "(", q>> \o name \o <<q, " ">>

CreateTableText(q, name, type, options) ==
    CreateTableHead(q, name) \o type \o <<")">> \o options

QuoteChars == {"bq", "dq"}

ConvertInit ==
    /\ cv_source_db \in EngineNames
    /\ cv_target_db \in EngineNames
    /\ cv_source_quote \in QuoteChars
    /\ cv_target_quote \in QuoteChars
    /\ \E name \in ColumnNames, type \in ColumnTypes,
          options \in {<<>>, TableOptions} :
          cv_create_sql = CreateTableText(cv_source_quote, name, type, options)
    /\ cv_result = cv_create_sql
    /\ cv_matches = <<>>
    /\ cv_pc = "quotes"

\* lines 234-238: result = create_sql; replace the identifier quote
CvQuotes ==
    /\ cv_pc = "quotes"
    /\ cv_result' = IF cv_source_quote # cv_target_quote
                    THEN ReplaceChar(cv_result, cv_source_quote, cv_target_quote)
                    ELSE cv_result
    /\ cv_pc' = "types"
    /\ UNCHANGED <<cv_others, cv_create_sql, cv_source_db, cv_target_db,
                   cv_source_quote, cv_target_quote, cv_matches>>

\* lines 240-254: rewrite every match of the type pattern
CvTypes ==
    /\ cv_pc = "types"
    /\ LET r == SubTypes(cv_result, cv_source_db, cv_target_db)
       IN  /\ cv_result' = r.text
           /\ cv_matches' = r.matches
    /\ cv_pc' = "syntax"
    /\ UNCHANGED <<cv_others, cv_create_sql, cv_source_db, cv_target_db,
                   cv_source_quote, cv_target_quote>>

\* lines 256-259: _handle_syntax_differences, then return
CvSyntax ==
    /\ cv_pc = "syntax"
    /\ LET r == HandleSyntaxDifferences(cv_result, cv_source_db, cv_target_db)
       IN  /\ cv_result' = r.sql
           /\ cv_pc' = IF r.raised THEN "raised" ELSE "returned"
    /\ UNCHANGED <<cv_others, cv_create_sql, cv_source_db, cv_target_db,
                   cv_source_quote, cv_target_quote, cv_matches>>

InitConvert ==
    MigIdle /\ FilterIdle /\ ImpIdle /\ ExpIdle /\ AdIdle /\ BatIdle /\ RtIdle
    /\ MtIdle /\ ConvertInit
    /\ CtIdle
    /\ TmIdle
    /\ TsIdle

NextConvert ==
    \/ CvQuotes
    \/ CvTypes
    \/ CvSyntax

SpecConvert == InitConvert /\ [][NextConvert]_vars

\* C21: every token the type pattern matched in the statement was replaced
\* by exactly what map_type returns for that token and the two engines.
C21_RewriteIsMapType ==
    \A k \in 1..Len(cv_matches) :
        cv_matches[k].replacement =
            MapType(cv_matches[k].token, cv_source_db, cv_target_db)

Converted == cv_pc \in {"returned", "raised"}

\* C22: from MySQL to SQLite or PostgreSQL the call returns a statement
\* without the ENGINE=, DEFAULT CHARSET=, COLLATE= and AUTO_INCREMENT=n
\* options; from PostgreSQL to MySQL it returns a statement in which SERIAL
\* has been replaced.
C22_SyntaxDifferencesHandled ==
    Converted =>
        /\ (cv_source_db = "mysql" /\ cv_target_db \in {"sqlite", "postgresql"}) =>
              /\ cv_pc = "returned"
              /\ \A w \in {"ENGINE", "CHARSET", "COLLATE"} : ~Contains(cv_result, w)
              /\ \A n \in 1..(Len(cv_result) - 1) :
                    ~(cv_result[n] = "INCREMENT" /\ cv_result[n + 1] = "=")
        /\ (cv_source_db = "postgresql" /\ cv_target_db = "mysql") =>
              /\ cv_pc = "returned"
              /\ ~Contains(cv_result, "SERIAL")

\* C27: when the two engines differ and the call returns, the statement
\* still names the table and the column it named before, in the target's
\* quotes.
C27_IdentifiersUnchanged ==
    (cv_pc = "returned" /\ cv_source_db # cv_target_db) =>
        \E name \in ColumnNames :
            /\ StartsWith(cv_create_sql, CreateTableHead(cv_source_quote, name))
            /\ StartsWith(cv_result, CreateTableHead(cv_target_quote, name))

\* ======================================================================
\* DatabaseAdapter.test_connection (base.py:165-178) as the connection test
\* uses it (test_migration.py:25-54): on an adapter get_adapter has just
\* built, test_connection(), then get_table_list() and close()

\* close(): `if self.connection:` close it and set it to None
CloseConnection_LeavesOpen(connection) == connection

CloseConnection(connection) ==
    IF connection # "none" THEN "none" ELSE connection

\* one call on the adapter: the connection before and after, whether it
\* raised, and the value it returned
CtCall(op, after, raised, value) ==
    [op |-> op, before |-> ct_connection, after |-> after,
     raised |-> raised, value |-> value]

ConnectionTestInit ==
    /\ ct_db_type \in SUPPORTED_DB_TYPES
    /\ ct_db \in [AllTables -> {Absent, FullTable}]
    /\ ct_connection = "none"
    /\ ct_pc = "connect"
    /\ ct_success = FALSE
    /\ ct_tables = <<>>
    /\ ct_log = <<>>

\* test_connection: `if self.connect():`; connect() sets self.connection
\* only when the driver returned one and returns False on any exception;
\* on False test_connection returns (False, "连接失败")
CtConnect ==
    /\ ct_pc = "connect"
    /\ \E ok \in BOOLEAN :
         LET after == IF ok THEN "open" ELSE ct_connection
         IN  /\ ct_connection' = after
             /\ ct_log' = Append(ct_log, CtCall("connect", after, FALSE, ok))
             /\ ct_success' = ok
             /\ ct_pc' = IF ok THEN "test_close" ELSE "failed"
    /\ UNCHANGED <<ct_others, ct_db_type, ct_db, ct_tables>>

\* test_connection: self.close(); return (True, "连接成功")
CtTestClose ==
    /\ ct_pc = "test_close"
    /\ LET after == CloseConnection(ct_connection)
       IN  /\ ct_connection' = after
           /\ ct_log' = Append(ct_log, CtCall("close", after, FALSE, TRUE))
    /\ ct_pc' = "list"
    /\ UNCHANGED <<ct_others, ct_db_type, ct_db, ct_success, ct_tables>>

\* tables = adapter.get_table_list()
CtGetTableList ==
    /\ ct_pc = "list"
    /\ \E fault \in BOOLEAN :
         LET value == IF ct_connection = "none" THEN <<>>
                      ELSE GetTableList(ct_db, fault)
             o == ReadOutcome(ct_connection, GetTableList(ct_db, fault), <<>>)
         IN  /\ ct_tables' = value
             /\ ct_log' = Append(ct_log, CtCall("get_table_list", ct_connection,
                                               o.raised, value))
    /\ ct_pc' = "close"
    /\ UNCHANGED <<ct_others, ct_db_type, ct_db, ct_connection, ct_success>>

\* adapter.close(); return True
CtClose ==
    /\ ct_pc = "close"
    /\ LET after == CloseConnection(ct_connection)
       IN  /\ ct_connection' = after
           /\ ct_log' = Append(ct_log, CtCall("close", after, FALSE, TRUE))
    /\ ct_pc' = "passed"
    /\ UNCHANGED <<ct_others, ct_db_type, ct_db, ct_success, ct_tables>>

InitConnectionTest ==
    MigIdle /\ FilterIdle /\ ImpIdle /\ ExpIdle /\ AdIdle /\ BatIdle /\ RtIdle
    /\ MtIdle /\ CvIdle /\ ConnectionTestInit
    /\ TmIdle
    /\ TsIdle

NextConnectionTest ==
    \/ CtConnect
    \/ CtTestClose
    \/ CtGetTableList
    \/ CtClose

SpecConnectionTest == InitConnectionTest /\ [][NextConnectionTest]_vars

\* C23: in the connection test no call raises; once test_connection has
\* returned, with success or with failure, the adapter is Disconnected; a
\* close of a Disconnected adapter changes nothing; and the adapter becomes
\* Connected only in a connect() that returned True.
C23_ConnectionTest ==
    /\ \A k \in 1..Len(ct_log) :
          /\ ~ct_log[k].raised
          /\ (ct_log[k].op = "close" /\ ct_log[k].before = "none") =>
                ct_log[k].after = "none"
          /\ (ct_log[k].before # "open" /\ ct_log[k].after = "open") =>
                ct_log[k].op = "connect" /\ ct_log[k].value = TRUE
    /\ ct_pc \in {"failed", "list", "close", "passed"} => ct_connection = "none"
    /\ ct_pc = "failed" <=> (ct_log # <<>> /\ ~ct_success)

\* a test that passed: connect returned True, test_connection closed the
\* connection, get_table_list found no connection and returned no table,
\* and the last close found nothing to close
C23_Witness ==
    /\ ct_pc = "passed"
    /\ Len(ct_log) = 4
    /\ ct_log[1].op = "connect" /\ ct_log[1].after = "open"
    /\ ct_log[2].op = "close" /\ ct_log[2].before = "open"
    /\ ct_log[3].op = "get_table_list" /\ ct_log[3].value = <<>>
    /\ ct_log[4].op = "close" /\ ct_log[4].before = "none"
    /\ \E t \in AllTables : ct_db[t].exists

\* ======================================================================
\* The scanner after a DELIMITER line (SpecSplit)

\* the first DELIMITER line of a script that has one
FirstDelimiterLine(sc) ==
    CHOOSE d \in 1..Len(sc) :
        IsDelimiterLine(sc[d]) /\ \A n \in 1..(d - 1) : ~IsDelimiterLine(sc[n])

\* the lines lo..hi that are neither comment nor DELIMITER lines, each
\* followed by a blank
RECURSIVE JoinBodyLines(_, _, _)
JoinBodyLines(sc, lo, hi) ==
    IF lo > hi THEN <<>>
    ELSE (IF IsCommentLine(sc[lo]) \/ IsDelimiterLine(sc[lo])
          THEN <<>> ELSE sc[lo] \o <<" ">>)
         \o JoinBodyLines(sc, lo + 1, hi)

\* the terminator lines before line d, and the statements they end
TerminatorsBefore(sc, d) == {n \in TerminatorLines(sc) : n < d}

StatementsBefore(sc, d) ==
    [k \in 1..Cardinality(TerminatorsBefore(sc, d)) |->
        Strip(JoinLines(sc, LastBefore(TerminatorsBefore(sc, d),
                                       Nth(TerminatorsBefore(sc, d), k)) + 1,
                        Nth(TerminatorsBefore(sc, d), k)))]

\* the text left open before line d together with every later line
OpenText(sc, d) ==
    Strip(JoinBodyLines(sc, LastBefore(TerminatorsBefore(sc, d), d) + 1, Len(sc)))

\* C24: once a DELIMITER line has been read no later line ends a statement:
\* while the scan goes on the statements are those emitted before that line,
\* and at the end of the file the text left open before it and all later
\* lines that are neither comment nor DELIMITER lines are emitted as one
\* statement (none when that text is blank).
C24_DelimiterSuspendsSplitting ==
    (imp_pc \in {"scan", "scanned"} /\ HasDelimiterLine(script)) =>
        LET d == FirstDelimiterLine(script)
        IN  /\ (imp_pc = "scan" /\ line_no >= d) =>
                  /\ scan.in_delimiter
                  /\ scan.sql_statements = StatementsBefore(script, d)
            /\ imp_pc = "scanned" =>
                  scan.sql_statements =
                      StatementsBefore(script, d)
                      \o (IF OpenText(script, d) # <<>>
                          THEN <<OpenText(script, d)>> ELSE <<>>)

\* one statement before the DELIMITER line, open text before it, and two
\* ';' lines after it that end up in one statement with the open text
C24_Witness ==
    /\ imp_pc = "scanned"
    /\ script = << <<"b", ";">>, <<"a">>,
                   <<"d", "e", "l", "i", "m", "i", "t", "e", "r", " ", ";">>,
                   <<"b", ";">>, <<" ", "c", ";", " ">> >>
    /\ scan.sql_statements =
          << <<"b", ";">>, <<"a", " ", "b", ";", " ", " ", "c", ";">> >>

\* ======================================================================
\* The source database during a migration run (Spec)

SourceReadOps ==
    {"get_table_list", "get_table_structure", "get_table_data",
     "get_table_columns"}

\* C25: a migration calls only read operations on the source adapter, and no
\* step of the run changes a table of the source database, whatever the two
\* configurations are.
C25_SourceNeverModified ==
    /\ [](\A k \in 1..Len(calls) :
             calls[k].adapter = "source" => calls[k].op \in SourceReadOps)
    /\ [][db'[SrcDb] = db[SrcDb]]_vars

\* C26: a table for which migrate_table returned true exists on the target
\* and holds exactly the rows the source table holds.
C26_TrueMeansRowsWritten ==
    \A t \in AllTables :
        table_result[t] = "ok" =>
            /\ db[TgtDb][t].exists
            /\ db[TgtDb][t].rows = db[SrcDb][t].rows

\* ======================================================================
\* ScheduledTaskManager (scheduler_config.py:86-184)
\*
\* A name and a cron expression are sequences of characters.  The sync
\* types stand for the two values of the code: "remote_to_local" for
\* '远程到本地' and "local_to_remote" for '本地到远程'; the messages are the
\* code's messages in English.

MaxManagerCalls == 3

SyncTypes == {"remote_to_local", "local_to_remote"}

\* ScheduledTask.validate
Validate(task) ==
    IF task.name = <<>> \/ Strip(task.name) = <<>>
    THEN [valid |-> FALSE, msg |-> "empty name"]
    ELSE IF task.sync_type \notin SyncTypes
    THEN [valid |-> FALSE, msg |-> "bad sync type"]
    ELSE IF task.schedule_type = "interval"
    THEN (IF task.interval_seconds <= 0
          THEN [valid |-> FALSE, msg |-> "interval not positive"]
          ELSE [valid |-> TRUE, msg |-> ""])
    ELSE IF task.schedule_type = "cron"
    THEN (IF task.cron_expression = <<>> \/ Strip(task.cron_expression) = <<>>
          THEN [valid |-> FALSE, msg |-> "empty cron expression"]
          ELSE [valid |-> TRUE, msg |-> ""])
    ELSE IF task.schedule_type = "once"
    THEN (IF task.run_time = <<>>
          THEN [valid |-> FALSE, msg |-> "no run time"]
          ELSE [valid |-> TRUE, msg |-> ""])
    ELSE [valid |-> FALSE, msg |-> "bad schedule type"]

\* the index of the first task of the list with the name, or 0
FirstNamed(tasks, task_name) ==
    IF \E idx \in 1..Len(tasks) : tasks[idx].name = task_name
    THEN CHOOSE idx \in 1..Len(tasks) :
            /\ tasks[idx].name = task_name
            /\ \A other \in 1..(idx - 1) : tasks[other].name # task_name
    ELSE 0

RemoveAt(tasks, idx) == SubSeq(tasks, 1, idx - 1) \o SubSeq(tasks, idx + 1, Len(tasks))

\* the list and the answer of one call
ManagerResult(tasks, success, msg) ==
    [tasks |-> tasks, success |-> success, msg |-> msg, saved |-> FALSE]

\* the list is changed first and saved after: `if self.save_tasks():`
SavedResult(tasks, save_ok, msg) ==
    [tasks |-> tasks, success |-> save_ok,
     msg |-> IF save_ok THEN msg ELSE "save failed", saved |-> save_ok]

\* ScheduledTaskManager.add_task
AddTask(tasks, task, save_ok) ==
    IF \E idx \in 1..Len(tasks) : tasks[idx].name = task.name
    THEN ManagerResult(tasks, FALSE, "name exists")
    ELSE IF ~Validate(task).valid
    THEN ManagerResult(tasks, FALSE, Validate(task).msg)
    ELSE SavedResult(Append(tasks, task), save_ok, "added")

\* ScheduledTaskManager.update_task
UpdateTask(tasks, task_name, task, save_ok) ==
    LET idx == FirstNamed(tasks, task_name)
    IN  IF idx = 0 THEN ManagerResult(tasks, FALSE, "no such task")
        ELSE IF ~Validate(task).valid
        THEN ManagerResult(tasks, FALSE, Validate(task).msg)
        ELSE SavedResult([tasks EXCEPT ![idx] = task], save_ok, "updated")

\* ScheduledTaskManager.delete_task
DeleteTask(tasks, task_name, save_ok) ==
    LET idx == FirstNamed(tasks, task_name)
    IN  IF idx = 0 THEN ManagerResult(tasks, FALSE, "no such task")
        ELSE SavedResult(RemoveAt(tasks, idx), save_ok, "deleted")

\* the names and the tasks the calls are made with
ManagerNames == {<<>>, <<" ">>, <<"a">>, <<"b">>}

TaskShapes ==
    {[sync_type |-> "remote_to_local", schedule_type |-> "interval",
      interval_seconds |-> 3600, cron_expression |-> <<>>, run_time |-> <<>>],
     [sync_type |-> "local_to_remote", schedule_type |-> "interval",
      interval_seconds |-> 0, cron_expression |-> <<>>, run_time |-> <<>>],
     [sync_type |-> "remote_to_local", schedule_type |-> "cron",
      interval_seconds |-> 3600, cron_expression |-> <<" ">>, run_time |-> <<>>],
     [sync_type |-> "remote_to_local", schedule_type |-> "once",
      interval_seconds |-> 3600, cron_expression |-> <<>>, run_time |-> <<"t">>],
     [sync_type |-> "remote_to_local", schedule_type |-> "once",
      interval_seconds |-> 3600, cron_expression |-> <<>>, run_time |-> <<>>],
     [sync_type |-> "both", schedule_type |-> "interval",
      interval_seconds |-> 3600, cron_expression |-> <<>>, run_time |-> <<>>],
     [sync_type |-> "local_to_remote", schedule_type |-> "daily",
      interval_seconds |-> 3600, cron_expression |-> <<>>, run_time |-> <<>>]}

NamedTask(name, shape) ==
    [name |-> name, sync_type |-> shape.sync_type,
     schedule_type |-> shape.schedule_type,
     interval_seconds |-> shape.interval_seconds,
     cron_expression |-> shape.cron_expression, run_time |-> shape.run_time]

ManagerTasks == {NamedTask(name, shape) : name \in ManagerNames, shape \in TaskShapes}

\* __init__: load_tasks reads the file; a missing file gives the empty list
TaskManagerInit ==
    /\ tm_tasks \in {<<>>} \cup {<<t>> : t \in {m \in ManagerTasks : Validate(m).valid}}
    /\ tm_file = tm_tasks
    /\ tm_before = tm_tasks
    /\ tm_op = "none"
    /\ tm_success = TRUE
    /\ tm_message = ""
    /\ tm_calls = 0

\* one call has returned r
TmReturn(op, r) ==
    /\ tm_calls < MaxManagerCalls
    /\ tm_calls' = tm_calls + 1
    /\ tm_before' = tm_tasks
    /\ tm_op' = op
    /\ tm_tasks' = r.tasks
    /\ tm_file' = IF r.saved THEN r.tasks ELSE tm_file
    /\ tm_success' = r.success
    /\ tm_message' = r.msg
    /\ UNCHANGED tm_others

TmAddTask ==
    \E task \in ManagerTasks, save_ok \in BOOLEAN :
        TmReturn("add_task", AddTask(tm_tasks, task, save_ok))

TmUpdateTask ==
    \E task_name \in ManagerNames, task \in ManagerTasks, save_ok \in BOOLEAN :
        TmReturn("update_task", UpdateTask(tm_tasks, task_name, task, save_ok))

TmDeleteTask ==
    \E task_name \in ManagerNames, save_ok \in BOOLEAN :
        TmReturn("delete_task", DeleteTask(tm_tasks, task_name, save_ok))

InitTaskManager ==
    MigIdle /\ FilterIdle /\ ImpIdle /\ ExpIdle /\ AdIdle /\ BatIdle /\ RtIdle
    /\ MtIdle /\ CvIdle /\ CtIdle /\ TaskManagerInit
    /\ TsIdle

NextTaskManager ==
    \/ TmAddTask
    \/ TmUpdateTask
    \/ TmDeleteTask

SpecTaskManager == InitTaskManager /\ [][NextTaskManager]_vars

DistinctNames(tasks) ==
    \A idx, other \in 1..Len(tasks) : tasks[idx].name = tasks[other].name => idx = other

\* no two tasks of the manager's list have the same name
C28_DistinctNames == DistinctNames(tm_tasks)

\* a call that answered failure has left the list as it was
C28_FailureUnchanged ==
    (tm_op # "none" /\ ~tm_success) => tm_tasks = tm_before

\* C28: no two tasks of the manager's list have the same name, and a call
\* that answered failure (duplicate name, invalid task, unknown name, save
\* failed) has left the list as it was.
C28_UniqueNamesAndFailureUnchanged ==
    C28_DistinctNames /\ C28_FailureUnchanged

\* ======================================================================
\* TaskScheduler (task_scheduler.py) over the ScheduledTaskManager
\*
\* A task object is a record of the fields nothing assigns after the
\* object is built, with the object's identity in `id`; the fields the code
\* assigns (enabled, last_run_status) are kept per object in ts_enabled and
\* ts_status.  The manager's list is a list of objects, a job of the
\* scheduler holds the object it was registered with (args=[task]), and
\* the executing thread holds the object it was started with.  The statuses
\* stand for the values of the code: "success" for '成功' and "failure"
\* for '失败'.

MaxObjects == 3
MaxGuiCalls == 2
MaxRuns == 1

SchedulerNames == {<<"a">>, <<"b">>}

ObjectIds == 1..MaxObjects

NoTask ==
    [id |-> 0, name |-> <<>>, sync_type |-> "", schedule_type |-> "",
     interval_seconds |-> 0, cron_expression |-> <<>>, run_time |-> <<>>]

\* the object built from a name and the fields of a dialog or a file entry
TaskObject(id, name, shape) ==
    [id |-> id, name |-> name, sync_type |-> shape.sync_type,
     schedule_type |-> shape.schedule_type,
     interval_seconds |-> shape.interval_seconds,
     cron_expression |-> shape.cron_expression, run_time |-> shape.run_time]

SchedulerShapes ==
    {[sync_type |-> "local_to_remote", schedule_type |-> "interval",
      interval_seconds |-> 3600, cron_expression |-> <<>>, run_time |-> <<>>],
     [sync_type |-> "remote_to_local", schedule_type |-> "once",
      interval_seconds |-> 3600, cron_expression |-> <<>>,
      run_time |-> <<"12", ":", "00">>]}

\* the hours and minutes a run time "HH:MM" is written with here
Hours == {"00", "12", "23"}
Minutes == {"00", "30", "59"}

\* _create_trigger: whether it returns a trigger
CreateTrigger(task) ==
    IF task.schedule_type = "interval" THEN TRUE
    ELSE IF task.schedule_type = "cron"
    THEN Cardinality({k \in 1..Len(task.cron_expression) :
            /\ task.cron_expression[k] \notin Whitespace
            /\ (k = 1 \/ task.cron_expression[k - 1] \in Whitespace)}) = 5
    ELSE IF task.schedule_type = "once"
    THEN /\ task.run_time # <<>>
         /\ Len(task.run_time) >= 3
         /\ task.run_time[1] \in Hours /\ task.run_time[2] = ":"
         /\ task.run_time[3] \in Minutes
    ELSE FALSE

\* to_dict / from_dict: what the file keeps of the tasks of the list
FileEntry(task, enabled, status) ==
    [name |-> task.name, sync_type |-> task.sync_type,
     schedule_type |-> task.schedule_type,
     interval_seconds |-> task.interval_seconds,
     cron_expression |-> task.cron_expression, run_time |-> task.run_time,
     enabled |-> enabled[task.id], last_run_status |-> status[task.id]]

\* save_tasks: the file it writes
SaveTasks(tasks, enabled, status) ==
    [k \in 1..Len(tasks) |-> FileEntry(tasks[k], enabled, status)]

\* load_tasks: one new object for every entry of the file
LoadTasks(file, next_id) ==
    [k \in 1..Len(file) |-> TaskObject(next_id + k, file[k].name, file[k])]

\* get_task: the first object of the list with the name, or NoTask
GetTask(tasks, task_name) ==
    IF FirstNamed(tasks, task_name) = 0 THEN NoTask
    ELSE tasks[FirstNamed(tasks, task_name)]

\* _register_task: the job of the same name is removed, and a job holding
\* the task is added when _create_trigger returned a trigger
RegisterTask(jobs, task) ==
    [jobs EXCEPT ![task.name] = IF CreateTrigger(task) THEN task ELSE NoTask]

\* _register_all_tasks: remove_all_jobs, then _register_task for every
\* enabled task in the order of the list
RECURSIVE RegisterFrom(_, _, _, _)
RegisterFrom(jobs, tasks, enabled, k) ==
    IF k > Len(tasks) THEN jobs
    ELSE RegisterFrom(IF enabled[tasks[k].id] THEN RegisterTask(jobs, tasks[k])
                      ELSE jobs,
                      tasks, enabled, k + 1)

RegisterAllTasks(tasks, enabled) ==
    RegisterFrom([n \in SchedulerNames |-> NoTask], tasks, enabled, 1)

\* DatabaseConfig (db_config.py:35-55) keeps host, port, username, password
\* and database: it has no attribute `user`; _execute_task builds the
\* synchronizer from one configuration, so target_config is None
DatabaseConfigHasUser == FALSE
TargetConfigGiven == FALSE

\* sync_remote_to_local: reading self.source_config.user raises inside the
\* try, and the except returns the error text
SyncRemoteToLocal(connect_ok, tables_ok) ==
    IF ~DatabaseConfigHasUser THEN "sync error"
    ELSE IF ~connect_ok THEN "connection failed"
    ELSE IF tables_ok THEN "remote to local done"
    ELSE "partly failed"

\* sync_local_to_remote: the two configurations are swapped; a source of
\* None makes connect_databases return False
SyncLocalToRemote(connect_ok, tables_ok) ==
    IF ~TargetConfigGiven \/ ~DatabaseConfigHasUser \/ ~connect_ok
    THEN "connection failed"
    ELSE IF tables_ok THEN "local to remote done"
    ELSE "partly failed"

SyncCompleted == {"remote to local done", "local to remote done"}

\* update_task_run_status: the status is set on the object the manager
\* holds under the name
UpdateTaskRunStatus(tasks, status, task_name, value) ==
    IF GetTask(tasks, task_name).id = 0 THEN status
    ELSE [status EXCEPT ![GetTask(tasks, task_name).id] = value]

IdleThread ==
    [pc |-> "idle", task |-> NoTask, result |-> "", recorded |-> ""]

\* the construction of TaskScheduler: the manager has loaded the file, the
\* scheduler is not running and has no job
TaskSchedulerInit ==
    /\ \E file \in {<<>>} \cup
                   {<<[name |-> name, sync_type |-> shape.sync_type,
                       schedule_type |-> shape.schedule_type,
                       interval_seconds |-> shape.interval_seconds,
                       cron_expression |-> shape.cron_expression,
                       run_time |-> shape.run_time,
                       enabled |-> TRUE, last_run_status |-> ""]>> :
                       name \in SchedulerNames, shape \in SchedulerShapes} :
          /\ ts_file = file
          /\ ts_tasks = LoadTasks(file, 0)
          /\ ts_next_id = Len(file)
          /\ ts_enabled = [id \in ObjectIds |-> id <= Len(file)]
    /\ ts_status = [id \in ObjectIds |-> ""]
    /\ ts_jobs = [n \in SchedulerNames |-> NoTask]
    /\ ts_running = FALSE
    /\ ts_thread = IdleThread
    /\ ts_gui_calls = 0
    /\ ts_runs = 0

\* start(): _register_all_tasks, then scheduler.start()
TsStart ==
    /\ ~ts_running
    /\ ts_jobs' = RegisterAllTasks(ts_tasks, ts_enabled)
    /\ ts_running' = TRUE
    /\ UNCHANGED <<ts_others, ts_tasks, ts_enabled, ts_status, ts_file,
                   ts_thread, ts_next_id, ts_gui_calls, ts_runs>>

\* TaskScheduler.add_task with a task object the dialog has built
TsSchedulerAddTask ==
    /\ ts_gui_calls < MaxGuiCalls
    /\ ts_next_id < MaxObjects
    /\ \E name \in SchedulerNames, shape \in SchedulerShapes,
          enabled \in BOOLEAN, save_ok \in BOOLEAN :
         LET task == TaskObject(ts_next_id + 1, name, shape)
             en == [ts_enabled EXCEPT ![task.id] = enabled]
             r == AddTask(ts_tasks, task, save_ok)
         IN  /\ ts_tasks' = r.tasks
             /\ ts_enabled' = en
             /\ ts_file' = IF r.saved THEN SaveTasks(r.tasks, en, ts_status)
                           ELSE ts_file
             /\ ts_jobs' = IF r.success /\ enabled /\ ts_running
                           THEN RegisterTask(ts_jobs, task) ELSE ts_jobs
    /\ ts_next_id' = ts_next_id + 1
    /\ ts_gui_calls' = ts_gui_calls + 1
    /\ UNCHANGED <<ts_others, ts_status, ts_running, ts_thread, ts_runs>>

\* TaskScheduler.update_task
TsSchedulerUpdateTask ==
    /\ ts_gui_calls < MaxGuiCalls
    /\ ts_next_id < MaxObjects
    /\ \E task_name \in SchedulerNames, name \in SchedulerNames,
          shape \in SchedulerShapes, enabled \in BOOLEAN, save_ok \in BOOLEAN :
         LET task == TaskObject(ts_next_id + 1, name, shape)
             en == [ts_enabled EXCEPT ![task.id] = enabled]
             r == UpdateTask(ts_tasks, task_name, task, save_ok)
             removed == [ts_jobs EXCEPT ![task_name] = NoTask]
         IN  /\ ts_tasks' = r.tasks
             /\ ts_enabled' = en
             /\ ts_file' = IF r.saved THEN SaveTasks(r.tasks, en, ts_status)
                           ELSE ts_file
             /\ ts_jobs' = IF r.success /\ ts_running
                           THEN (IF enabled THEN RegisterTask(removed, task)
                                 ELSE removed)
                           ELSE ts_jobs
    /\ ts_next_id' = ts_next_id + 1
    /\ ts_gui_calls' = ts_gui_calls + 1
    /\ UNCHANGED <<ts_others, ts_status, ts_running, ts_thread, ts_runs>>

\* TaskScheduler.delete_task
TsSchedulerDeleteTask ==
    /\ ts_gui_calls < MaxGuiCalls
    /\ \E task_name \in SchedulerNames, save_ok \in BOOLEAN :
         LET r == DeleteTask(ts_tasks, task_name, save_ok)
         IN  /\ ts_tasks' = r.tasks
             /\ ts_file' = IF r.saved
                           THEN SaveTasks(r.tasks, ts_enabled, ts_status)
                           ELSE ts_file
             /\ ts_jobs' = IF r.success THEN [ts_jobs EXCEPT ![task_name] = NoTask]
                           ELSE ts_jobs
    /\ ts_gui_calls' = ts_gui_calls + 1
    /\ UNCHANGED <<ts_others, ts_enabled, ts_status, ts_running, ts_thread,
                   ts_next_id, ts_runs>>

\* reload_tasks: load_tasks builds new objects from the file (the empty
\* list when the file cannot be read), then _register_all_tasks
TsReloadTasks ==
    /\ ts_gui_calls < MaxGuiCalls
    /\ ts_next_id + Len(ts_file) <= MaxObjects
    /\ \E load_ok \in BOOLEAN :
         LET loaded == IF load_ok THEN LoadTasks(ts_file, ts_next_id) ELSE <<>>
             en == [id \in ObjectIds |->
                      IF \E k \in 1..Len(loaded) : loaded[k].id = id
                      THEN ts_file[id - ts_next_id].enabled
                      ELSE ts_enabled[id]]
             st == [id \in ObjectIds |->
                      IF \E k \in 1..Len(loaded) : loaded[k].id = id
                      THEN ts_file[id - ts_next_id].last_run_status
                      ELSE ts_status[id]]
         IN  /\ ts_tasks' = loaded
             /\ ts_enabled' = en
             /\ ts_status' = st
             /\ ts_jobs' = RegisterAllTasks(loaded, en)
             /\ ts_next_id' = ts_next_id + Len(loaded)
    /\ ts_gui_calls' = ts_gui_calls + 1
    /\ UNCHANGED <<ts_others, ts_file, ts_running, ts_thread, ts_runs>>

\* the scheduler runs a job that is due: _execute_task(task) starts with
\* the object of the job; a job with a date trigger has no next run and is
\* removed when it is run
TsJobDue ==
    /\ ts_running
    /\ ts_thread.pc = "idle"
    /\ ts_runs < MaxRuns
    /\ \E name \in SchedulerNames :
         /\ ts_jobs[name] # NoTask
         /\ ts_thread' = [IdleThread EXCEPT !.pc = "configs",
                                            !.task = ts_jobs[name]]
         /\ ts_jobs' = IF ts_jobs[name].schedule_type = "once"
                       THEN [ts_jobs EXCEPT ![name] = NoTask] ELSE ts_jobs
    /\ ts_runs' = ts_runs + 1
    /\ UNCHANGED <<ts_others, ts_tasks, ts_enabled, ts_status, ts_file,
                   ts_running, ts_next_id, ts_gui_calls>>

\* run_task_now: get_task(task_name), and a thread that runs
\* _execute_task(task)
TsRunTaskNow ==
    /\ ts_thread.pc = "idle"
    /\ ts_runs < MaxRuns
    /\ \E name \in SchedulerNames :
         /\ GetTask(ts_tasks, name) # NoTask
         /\ ts_thread' = [IdleThread EXCEPT !.pc = "configs",
                                            !.task = GetTask(ts_tasks, name)]
    /\ ts_runs' = ts_runs + 1
    /\ UNCHANGED <<ts_others, ts_tasks, ts_enabled, ts_status, ts_file,
                   ts_jobs, ts_running, ts_next_id, ts_gui_calls>>

\* _execute_task, the configurations: when one of the two is missing the
\* status "failure" is recorded and the call returns
TsConfigs ==
    /\ ts_thread.pc = "configs"
    /\ \E complete \in BOOLEAN, save_ok \in BOOLEAN :
         IF complete
         THEN /\ ts_thread' = [ts_thread EXCEPT !.pc = "sync"]
              /\ UNCHANGED <<ts_status, ts_file>>
         ELSE LET st == UpdateTaskRunStatus(ts_tasks, ts_status,
                                            ts_thread.task.name, "failure")
              IN  /\ ts_status' = st
                  /\ ts_file' = IF save_ok /\ GetTask(ts_tasks, ts_thread.task.name) # NoTask
                                THEN SaveTasks(ts_tasks, ts_enabled, st)
                                ELSE ts_file
                  /\ ts_thread' = [ts_thread EXCEPT !.pc = "returned",
                                                    !.recorded = "failure"]
    /\ UNCHANGED <<ts_others, ts_tasks, ts_enabled, ts_jobs, ts_running,
                   ts_next_id, ts_gui_calls, ts_runs>>

\* _execute_task, the synchronization: result = sync.sync_remote_to_local()
\* or sync.sync_local_to_remote()
TsSync ==
    /\ ts_thread.pc = "sync"
    /\ \E connect_ok \in BOOLEAN, tables_ok \in BOOLEAN :
         ts_thread' =
            [ts_thread EXCEPT
                !.pc = "status",
                !.result = IF ts_thread.task.sync_type = "remote_to_local"
                           THEN SyncRemoteToLocal(connect_ok, tables_ok)
                           ELSE SyncLocalToRemote(connect_ok, tables_ok)]
    /\ UNCHANGED <<ts_others, ts_tasks, ts_enabled, ts_status, ts_file,
                   ts_jobs, ts_running, ts_next_id, ts_gui_calls, ts_runs>>

\* the status _execute_task records once the synchronization has returned
\* its result: '成功', whatever the result says
RecordedStatus(result) == "success"

\* _execute_task: update_task_run_status(task_name, '成功', ...)
TsStatus ==
    /\ ts_thread.pc = "status"
    /\ \E save_ok \in BOOLEAN :
         LET value == RecordedStatus(ts_thread.result)
             st == UpdateTaskRunStatus(ts_tasks, ts_status,
                                       ts_thread.task.name, value)
         IN  /\ ts_status' = st
             /\ ts_file' = IF save_ok /\ GetTask(ts_tasks, ts_thread.task.name) # NoTask
                           THEN SaveTasks(ts_tasks, ts_enabled, st)
                           ELSE ts_file
             /\ ts_thread' =
                  [ts_thread EXCEPT
                      !.pc = IF ts_thread.task.schedule_type = "once"
                             THEN "disable" ELSE "returned",
                      !.recorded = value]
    /\ UNCHANGED <<ts_others, ts_tasks, ts_enabled, ts_jobs, ts_running,
                   ts_next_id, ts_gui_calls, ts_runs>>

\* _execute_task, a task run once: task.enabled = False on the object the
\* thread holds, and save_tasks()
TsDisable ==
    /\ ts_thread.pc = "disable"
    /\ \E save_ok \in BOOLEAN :
         LET en == [ts_enabled EXCEPT ![ts_thread.task.id] = FALSE]
         IN  /\ ts_enabled' = en
             /\ ts_file' = IF save_ok THEN SaveTasks(ts_tasks, en, ts_status)
                           ELSE ts_file
    /\ ts_thread' = [ts_thread EXCEPT !.pc = "remove"]
    /\ UNCHANGED <<ts_others, ts_tasks, ts_status, ts_jobs, ts_running,
                   ts_next_id, ts_gui_calls, ts_runs>>

\* _execute_task, a task run once: the job of the name, if there is one,
\* is removed, and the call returns
TsRemoveJob ==
    /\ ts_thread.pc = "remove"
    /\ ts_jobs' = [ts_jobs EXCEPT ![ts_thread.task.name] = NoTask]
    /\ ts_thread' = [ts_thread EXCEPT !.pc = "returned"]
    /\ UNCHANGED <<ts_others, ts_tasks, ts_enabled, ts_status, ts_file,
                   ts_running, ts_next_id, ts_gui_calls, ts_runs>>

\* the thread ends
TsThreadEnds ==
    /\ ts_thread.pc = "returned"
    /\ ts_thread' = IdleThread
    /\ UNCHANGED <<ts_others, ts_tasks, ts_enabled, ts_status, ts_file,
                   ts_jobs, ts_running, ts_next_id, ts_gui_calls, ts_runs>>

InitScheduler ==
    MigIdle /\ FilterIdle /\ ImpIdle /\ ExpIdle /\ AdIdle /\ BatIdle /\ RtIdle
    /\ MtIdle /\ CvIdle /\ CtIdle /\ TmIdle /\ TaskSchedulerInit

NextScheduler ==
    \/ TsStart
    \/ TsSchedulerAddTask
    \/ TsSchedulerUpdateTask
    \/ TsSchedulerDeleteTask
    \/ TsReloadTasks
    \/ TsJobDue
    \/ TsRunTaskNow
    \/ TsConfigs
    \/ TsSync
    \/ TsStatus
    \/ TsDisable
    \/ TsRemoveJob
    \/ TsThreadEnds

SpecScheduler == InitScheduler /\ [][NextScheduler]_vars

\* C29: the status _execute_task has recorded for a run is "success" only
\* when the synchronization of the run completed, and it is "failure" when
\* the synchronization returned a connection failure, a partial failure or
\* an error.
C29_StatusFollowsSync ==
    ts_thread.pc \in {"disable", "remove", "returned"} /\ ts_thread.result # ""
        => (ts_thread.recorded = "success" <=> ts_thread.result \in SyncCompleted)

\* C30: when _execute_task returns from the run of a task of schedule type
\* "once", the scheduler holds no job under the task's name and the task
\* the manager holds under that name, if there is one, is disabled, whatever
\* the GUI thread has called while the task was running.
C30_OnceTaskDisabledAndUnregistered ==
    [][(ts_thread.pc = "remove" /\ ts_thread'.pc = "returned") =>
          /\ ts_jobs'[ts_thread.task.name] = NoTask
          /\ GetTask(ts_tasks', ts_thread.task.name) # NoTask =>
                ~ts_enabled'[GetTask(ts_tasks', ts_thread.task.name).id]]_vars

====
